---------------------------- MODULE Spec2Model ----------------------------
(***************************************************************************)
(* A model of axcel: the accessibility scanner (lib/scanner), the          *)
(* suggestion engine (lib/suggestions) and the command line (bin/cli.js).  *)
(*                                                                         *)
(* Text is modelled as a sequence of chunks (TLA+ strings): a literal of   *)
(* the source is one chunk, an AI reply is a sequence of marker, word,     *)
(* whitespace and fence chunks.  A path is a sequence of chunks too, so    *)
(* that path.extname and toLowerCase act on what they really read.         *)
(***************************************************************************)
EXTENDS Integers, Sequences, FiniteSets, TLC

VARIABLES
    \* ---- suggestion engine: one call of processReport ----
    sgReport,     \* the report handed to processReport
    sgCred,       \* process.env.GEMINI_API_KEY is set
    sgReadable,   \* fs.readFileSync(report.file) succeeds
    sgPc,         \* "start" | "loop" | "done"
    sgIdx,        \* position in the issue loop (1-based, next to process)
    sgOut,        \* the local array suggestions of the issue loop
    sgCalls,      \* every model.generateContent call: [key, outcome]
    sgClient,     \* new GoogleGenerativeAI(...) was executed
    sgLog,        \* console.warn / console.error lines of the engine
    sgResult,     \* what processReport returned
    \* ---- scanner: one call of scan(filePath) ----
    scPath,       \* the path handed to scan
    scEnv,        \* what the file system and the libraries do for that path
    scPc,         \* "start" | "axe" | "done"
    scInvoked,    \* "none" | "html" | "css": the scanner scan() called
    scReads,      \* number of fs.readFileSync calls
    scGlobals,    \* the path global.window / global.document were built from
    scLog,        \* console.error lines of the scanner
    scOutcome,    \* the promise scan() returned: pending, resolved, rejected
    \* ---- command line: one run of the scan command ----
    cliInput,     \* the <input> argument: [kind, path], kind missing | file | dir
    cliOpts,      \* [report, output, ai]: --report value, --output given, --ai
    cliCred,      \* process.env.GEMINI_API_KEY is set
    cliPc,        \* "start" | "walk" | "ai" | "output" | "done"
    cliStack,     \* the active calls of walkDirectory: [dir, listed, todo]
    cliResults,   \* the array results
    cliAiIdx,     \* position of the loop over results of the AI phase
    cliStdout,    \* lines of console.log
    cliStderr,    \* lines of console.error and console.warn
    cliFiles,     \* files written by fs.writeFileSync: [name, content]
    cliExit,      \* "running" | "0" | "1"
    cliTrace,     \* history: directory listings, scans and AI calls, in order
    fsBudget,     \* entries the directory tree may still turn out to have
    \* ---- one call of a function of the report renderers ----
    fnInput,      \* the argument of the call
    fnPc,         \* "call" | "done"
    fnOutput,     \* what the call returned
    \* ---- the scans of one run of an entry point, with the evaluator ----
    epEntry,      \* "cli" (bin/cli.js) | "old" (the earlier command)
    epFiles,      \* the files with a scanned extension, in traversal order
    epNext,       \* index in epFiles of the next file to scan
    epGlobals,    \* the file whose window is in global.window, <<>> at the start
    epRunning,    \* files whose axe.run has not called back yet
    epResults,    \* the results list
    epReads       \* what the evaluator read: [file it evaluates, epGlobals then]

sgVars == <<sgReport, sgCred, sgReadable, sgPc, sgIdx, sgOut, sgCalls,
            sgClient, sgLog, sgResult>>

scVars == <<scPath, scEnv, scPc, scInvoked, scReads, scGlobals, scLog, scOutcome>>

cliVars == <<cliInput, cliOpts, cliCred, cliPc, cliStack, cliResults, cliAiIdx,
             cliStdout, cliStderr, cliFiles, cliExit, cliTrace, fsBudget>>

fnVars == <<fnInput, fnPc, fnOutput>>

epVars == <<epEntry, epFiles, epNext, epGlobals, epRunning, epResults, epReads>>

vars == <<sgVars, scVars, cliVars, fnVars, epVars>>

-----------------------------------------------------------------------------
(* Bounds of the model *)

\* most issues (HTML rules, or CSS sub-issues in total) in one report
MaxIssues == 2

\* entries (files and directories) of the tree a directory walk is checked on
MaxEntries == 4

\* entries of the tree when the whole run of the command is checked
MaxCliEntries == 2

\* most characters in one text inserted into the HTML report
MaxText == 2

\* most chunks in one reply text given to parseGeminiResponse
MaxReply == 5

\* most characters in one text given to wrapText, and the widest column
MaxWrapText == 5
MaxWidth == 4

\* most files one run of an entry point scans
MaxScanFiles == 3

\* widest terminal process.stdout.columns reports, and the longest word and
\* the most words of a cell text of the table
MaxColumns == 145
MaxWord == 60
MaxWords == 8

-----------------------------------------------------------------------------
(* Generic helpers *)

Has(r, f) == f \in DOMAIN r

Range(s) == {s[i] : i \in 1..Len(s)}

Min(a, b) == IF a <= b THEN a ELSE b

\* Array.prototype.slice(0, n)
Slice(s, n) == SubSeq(s, 1, Min(n, Len(s)))

\* sequences over S of length 0..n
SeqsUpTo(S, n) == UNION {[1..k -> S] : k \in 0..n}

RECURSIVE Flatten(_)
Flatten(ss) == IF ss = <<>> THEN <<>> ELSE Head(ss) \o Flatten(Tail(ss))

-----------------------------------------------------------------------------
(* Paths.  A path is a sequence of names, a name a sequence of chunks:       *)
(* a/b.html is << <<"a">>, <<"b", ".", "html">> >>.                          *)

DOT == "."

\* the position of the last "." of a name, 0 if it has none
RECURSIVE LastDot(_, _)
LastDot(name, i) ==
    IF i = 0 THEN 0
    ELSE IF name[i] = DOT THEN i
    ELSE LastDot(name, i - 1)

\* path.extname of a base name: from the last dot to the end; empty when
\* there is no dot or the only dot opens the name
ExtOfName(name) ==
    LET i == LastDot(name, Len(name))
    IN IF i <= 1 THEN <<>> ELSE SubSeq(name, i, Len(name))

\* path.extname(p): the extension of the last name of the path
ExtName(path) == IF path = <<>> THEN <<>> ELSE ExtOfName(path[Len(path)])

\* String.prototype.toLowerCase, chunk by chunk
LowerChunk(c) ==
    CASE c = "HTML" -> "html"
      [] c = "Html" -> "html"
      [] c = "CSS" -> "css"
      [] OTHER -> c

ToLowerCase(chunks) == [i \in 1..Len(chunks) |-> LowerChunk(chunks[i])]

DotHtml == <<DOT, "html">>
DotCss == <<DOT, "css">>

\* path.join(dir, file)
Join(dir, file) == Append(dir, file)

-----------------------------------------------------------------------------
(* Scanner: scan, scanHTML, scanCSS, calculateContrastRatio *)

\* a promise's outcome
Resolved(v) == [kind |-> "resolved", value |-> v]
Rejected(e) == [kind |-> "rejected", error |-> e]

\* Color(x).luminosity() in thousandths, for the colour strings the colour
\* library parses; any other string makes Color(x) throw
ParseableColors == {"#000", "#fff", "#777", "#767676"}

Luminosity(c) ==
    CASE c = "#000" -> 0
      [] c = "#fff" -> 1000
      [] c = "#777" -> 184
      [] c = "#767676" -> 181

Max(a, b) == IF a >= b THEN a ELSE b

\* calculateContrastRatio: null when the library cannot be imported or a colour
\* does not parse, else (L1 + 0.05) / (L2 + 0.05) as the fraction num/den
calculateContrastRatio(foreground, background, lib) ==
    IF ~lib THEN [null |-> TRUE]
    ELSE IF ~(Len(foreground) = 1 /\ foreground[1] \in ParseableColors
              /\ Len(background) = 1 /\ background[1] \in ParseableColors)
    THEN [null |-> TRUE]
    ELSE LET fl == Luminosity(foreground[1])
             bl == Luminosity(background[1])
         IN [null |-> FALSE, num |-> Max(fl, bl) + 50, den |-> Min(fl, bl) + 50]

\* ratio < 4.5
BelowThreshold(ratio) == ratio.num * 10 < 45 * ratio.den

\* ratio.toFixed(2), in hundredths (rounded half up)
ToFixed2(ratio) == (ratio.num * 200 + ratio.den) \div (2 * ratio.den)

\* mutant of IncludesNone: the value has to be none and nothing else
IncludesNone_WholeValue(value) == value = <<"none">>

\* decl.value.includes('none'); a value is a sequence of chunks
IncludesNone(value) == \E i \in 1..Len(value) : value[i] = "none"

FocusIssue(selector, value) ==
    [type |-> "FocusStyle", message |-> <<"msg", "outline", selector>>,
     declaration |-> <<"outline", value>>]

ContrastIssue(selector, color, background) ==
    [type |-> "ColorContrast",
     message |-> <<"msg", "contrast", selector,
                   ToFixed2(calculateContrastRatio(color, background, TRUE))>>,
     declarations |-> <<<<"color", color>>, <<"background-color", background>>>>]

\* mutant of LastValue: the first declaration of a property wins
RECURSIVE LastValue_FirstWins(_, _)
LastValue_FirstWins(decls, prop) ==
    IF decls = <<>> THEN <<>>
    ELSE IF Head(decls).prop = prop THEN Head(decls).value
    ELSE LastValue_FirstWins(Tail(decls), prop)

\* declarations[prop] after walkDecls: the last declaration of prop, <<>> if none
RECURSIVE LastValue(_, _)
LastValue(decls, prop) ==
    IF decls = <<>> THEN <<>>
    ELSE IF decls[Len(decls)].prop = prop THEN decls[Len(decls)].value
    ELSE LastValue(SubSeq(decls, 1, Len(decls) - 1), prop)

\* the FocusStyle issues walkDecls pushes, in declaration order
RECURSIVE FocusIssues(_, _)
FocusIssues(selector, decls) ==
    IF decls = <<>> THEN <<>>
    ELSE (IF Head(decls).prop = "outline" /\ IncludesNone(Head(decls).value)
          THEN <<FocusIssue(selector, Head(decls).value)>> ELSE <<>>)
         \o FocusIssues(selector, Tail(decls))

\* mutant of RuleIssues: the contrast issue is pushed before the focus issues
RuleIssues_ContrastFirst(node, lib) ==
    LET color == LastValue(node.decls, "color")
        bg == LastValue(node.decls, "background-color")
        ratio == calculateContrastRatio(color, bg, lib)
    IN (IF color # <<>> /\ bg # <<>> /\ ~ratio.null /\ BelowThreshold(ratio)
        THEN <<ContrastIssue(node.selector, color, bg)>> ELSE <<>>)
       \o FocusIssues(node.selector, node.decls)

\* ruleIssues of one rule node
RuleIssues(node, lib) ==
    LET color == LastValue(node.decls, "color")
        bg == LastValue(node.decls, "background-color")
        ratio == calculateContrastRatio(color, bg, lib)
    IN FocusIssues(node.selector, node.decls)
       \o (IF color # <<>> /\ bg # <<>> /\ ~ratio.null /\ BelowThreshold(ratio)
           THEN <<ContrastIssue(node.selector, color, bg)>> ELSE <<>>)

\* the loop over root.nodes of scanCSS
RECURSIVE CssIssues(_, _)
CssIssues(nodes, lib) ==
    IF nodes = <<>> THEN <<>>
    ELSE LET n == Head(nodes)
             ri == IF n.type = "rule" THEN RuleIssues(n, lib) ELSE <<>>
         IN (IF ri # <<>> THEN <<[selector |-> n.selector, issues |-> ri]>> ELSE <<>>)
            \o CssIssues(Tail(nodes), lib)

CssReport(file, issues) == [file |-> file, type |-> "css", issues |-> issues]
UnsupportedReport(file) == [error |-> "Unsupported file type", file |-> file]

\* one rule of the evaluator's result lists
AxeRule(id, impact, nodes) ==
    [id |-> id, impact |-> impact, description |-> <<"description of ", id>>,
     help |-> <<"help of ", id>>, nodes |-> nodes]

\* results.x.filter(rule => Array.isArray(rule.nodes) && rule.nodes.length > 0)
RECURSIVE FilterNodes(_)
FilterNodes(rules) ==
    IF rules = <<>> THEN <<>>
    ELSE (IF Head(rules).nodes # <<>> THEN <<Head(rules)>> ELSE <<>>)
         \o FilterNodes(Tail(rules))

\* what the callback of axe.run resolves the promise of scanHTML with
HtmlReport(file, axe) ==
    IF axe.kind = "err"
    THEN [file |-> file, type |-> "html", issues |-> <<>>, error |-> axe.message]
    ELSE [file |-> file, type |-> "html",
          issues |-> FilterNodes(axe.violations),
          passes |-> axe.passes,
          incomplete |-> FilterNodes(axe.incomplete),
          inapplicable |-> FilterNodes(axe.inapplicable)]

\* scanCSS on a file: readFileSync and postcss.parse may throw
scanCSS(filePath, env) ==
    IF ~env.readable THEN Rejected("EACCES")
    ELSE IF env.content.kind = "syntaxError" THEN Rejected("CssSyntaxError")
    ELSE Resolved(CssReport(filePath, CssIssues(env.content.nodes, env.lib)))

\* mutant of scanHTML: the callback rejects with the evaluator's error
scanHTML_Propagates(filePath, env) ==
    IF ~env.readable THEN Rejected("EACCES")
    ELSE IF env.axe.kind = "err" THEN Rejected(env.axe.message)
    ELSE Resolved(HtmlReport(filePath, env.axe))

\* scanHTML on a file: readFileSync may throw; the evaluator answers through
\* the callback
scanHTML(filePath, env) ==
    IF ~env.readable THEN Rejected("EACCES")
    ELSE Resolved(HtmlReport(filePath, env.axe))

\* mutant of Route: the extension is compared as it is written
Route_CaseSensitive(filePath) ==
    LET ext == ExtName(filePath)
    IN IF ext = DotHtml THEN "html"
       ELSE IF ext = DotCss THEN "css"
       ELSE "none"

\* which scanner scan() hands the path to
Route(filePath) ==
    LET ext == ToLowerCase(ExtName(filePath))
    IN IF ext = DotHtml THEN "html"
       ELSE IF ext = DotCss THEN "css"
       ELSE "none"

scan(filePath, env) ==
    IF Route(filePath) = "html" THEN scanHTML(filePath, env)
    ELSE IF Route(filePath) = "css" THEN scanCSS(filePath, env)
    ELSE Resolved(UnsupportedReport(filePath))

-----------------------------------------------------------------------------
(* Text chunks of an AI reply *)

WS == " "
\* a fenced-code marker (three backquotes)
FENCE == "[fence]"
SUGG == "SUGGESTION:"
CODE == "CODE:"

RECURSIVE TrimLeft(_)
TrimLeft(t) == IF t # <<>> /\ Head(t) = WS THEN TrimLeft(Tail(t)) ELSE t

RECURSIVE TrimRight(_)
TrimRight(t) ==
    IF t # <<>> /\ t[Len(t)] = WS THEN TrimRight(SubSeq(t, 1, Len(t) - 1)) ELSE t

\* String.prototype.trim
Trim(t) == TrimRight(TrimLeft(t))

\* index of the first chunk equal to c at or after position from; Len(t)+1 if none
RECURSIVE IndexFrom(_, _, _)
IndexFrom(t, c, from) ==
    IF from > Len(t) THEN Len(t) + 1
    ELSE IF t[from] = c THEN from
    ELSE IndexFrom(t, c, from + 1)

\* codeFix.replace(/FENCE(?:html|css)?\s*/g, ''): every fence goes, with the
\* language tag glued to it and the whitespace after it
LangTags == {"html", "css"}

\* mutant of StripFences: only the first fence goes
StripFences_FirstOnly(t) ==
    LET i == IndexFrom(t, FENCE, 1)
    IN IF i > Len(t) THEN t
       ELSE LET r == SubSeq(t, i + 1, Len(t))
                afterTag == IF r # <<>> /\ Head(r) \in LangTags THEN Tail(r) ELSE r
            IN SubSeq(t, 1, i - 1) \o TrimLeft(afterTag)

RECURSIVE StripFences(_)
StripFences(t) ==
    IF t = <<>> THEN <<>>
    ELSE IF Head(t) = FENCE
         THEN LET r == Tail(t)
                  afterTag == IF r # <<>> /\ Head(r) \in LangTags THEN Tail(r) ELSE r
              IN StripFences(TrimLeft(afterTag))
         ELSE <<Head(t)>> \o StripFences(Tail(t))

\* parseGeminiResponse: /SUGGESTION:\s*(.*?)(?=CODE:|$)/s and /CODE:\s*([\s\S]*?)$/s
ParseSuggestion(text) ==
    LET i == IndexFrom(text, SUGG, 1)
    IN IF i > Len(text) THEN <<>>
       ELSE LET rest == TrimLeft(SubSeq(text, i + 1, Len(text)))
                k == IndexFrom(rest, CODE, 1)
            IN Trim(SubSeq(rest, 1, k - 1))

ParseCodeFix(text) ==
    LET i == IndexFrom(text, CODE, 1)
    IN IF i > Len(text) THEN <<>>
       ELSE LET cap == TrimLeft(SubSeq(text, i + 1, Len(text)))
            IN IF cap = <<>> THEN <<>>
               ELSE Trim(StripFences(Trim(cap)))

parseGeminiResponse(text) ==
    [suggestion |-> ParseSuggestion(text), codeFix |-> ParseCodeFix(text)]

-----------------------------------------------------------------------------
(* Static suggestion lookup (getHTMLSuggestionByRule, getCSSSuggestionByType) *)

\* keys of the ruleSuggestions dictionary
KnownRules ==
    {"image-alt", "button-name", "color-contrast", "label", "link-name",
     "heading-order", "landmark", "aria-roles", "document-title", "html-lang",
     "region"}

\* ruleSuggestions[ruleId].suggestion
RuleSuggestionText(ruleId) ==
    CASE ruleId = "image-alt" ->
           "Add an alt attribute to images to provide text alternatives for screen readers."
      [] ruleId = "button-name" ->
           "Provide a name for all button elements through text content, aria-label, or aria-labelledby."
      [] ruleId = "color-contrast" ->
           "Ensure sufficient contrast between foreground and background colors (at least 4.5:1 for normal text)."
      [] ruleId = "label" ->
           "Associate form elements with labels using the 'for' attribute or nesting within label elements."
      [] ruleId = "link-name" ->
           "Provide accessible names for all links through text content, aria-label, or aria-labelledby."
      [] ruleId = "heading-order" ->
           "Ensure heading levels are properly nested (h1, then h2, etc.) without skipping levels."
      [] ruleId = "landmark" ->
           "Use ARIA landmark roles or HTML5 semantic elements to mark important regions of the page."
      [] ruleId = "aria-roles" ->
           "Ensure all ARIA roles are used according to specifications and are appropriate for the element."
      [] ruleId = "document-title" ->
           "Provide a descriptive page title using the <title> element in the document head."
      [] ruleId = "html-lang" ->
           "Specify the language of the document using the lang attribute on the html element."
      [] ruleId = "region" ->
           "Wrap page content in landmark regions using semantic HTML5 elements (header, nav, main, footer) or ARIA landmark roles."

\* The code fix of a rule is a template applied to the example snippet; the
\* model keeps the template's name and the snippet it was applied to.
\* document-title is the one template that does not read the snippet.
RuleCodeFix(ruleId, exampleHTML) ==
    IF ruleId = "document-title" THEN <<"codeFix", ruleId>>
    ELSE <<"codeFix", ruleId, exampleHTML>>

\* nodes is the array of node examples (their html); nodes[0]?.html || ''
getHTMLSuggestionByRule(ruleId, nodes) ==
    LET exampleHTML == IF nodes = <<>> THEN "" ELSE nodes[1]
    IN IF ruleId \in KnownRules
       THEN [suggestion |-> <<RuleSuggestionText(ruleId)>>,
             codeFix |-> RuleCodeFix(ruleId, exampleHTML)]
       ELSE [suggestion |-> <<"Fix accessibility issues related to ", ruleId,
                              " by following WCAG guidelines.">>,
             codeFix |-> <<"codeFix", "default", exampleHTML>>]

getCSSSuggestionByType(type, selector, cssIssue, problematicCode) ==
    IF type = "ColorContrast"
    THEN [suggestion |-> <<"Increase the contrast ratio between text and background to at least 4.5:1 for normal text.">>,
          codeFix |-> <<"codeFix", "ColorContrast", problematicCode, selector,
                        "#000000", "#ffffff">>]
    ELSE IF type = "FocusStyle"
    THEN [suggestion |-> <<"Instead of removing the outline completely, provide an alternative focus indicator for keyboard users.">>,
          codeFix |-> <<"codeFix", "FocusStyle", problematicCode, selector>>]
    ELSE [suggestion |-> <<"Fix CSS accessibility issues for selector ", selector,
                           " according to WCAG guidelines.">>,
          codeFix |-> <<"codeFix", "default", problematicCode>>]

-----------------------------------------------------------------------------
(* Suggestion engine: processReport *)

\* issue.nodes.slice(0, 2) as node examples; a node is modelled by its html
NodeExamples(issue) == Slice(issue.nodes, 2)

\* the code block of a CSS sub-issue quoted in the prompt and in the entry
ProblematicCode(selector, cssIssue) ==
    IF Has(cssIssue, "declaration") THEN <<selector, <<cssIssue.declaration>>>>
    ELSE IF Has(cssIssue, "declarations") THEN <<selector, cssIssue.declarations>>
    ELSE <<>>

\* the nested loops of processCSSIssues / generateRuleBasedSuggestions, in order
RECURSIVE CssWork(_)
CssWork(groups) ==
    IF groups = <<>> THEN <<>>
    ELSE LET g == Head(groups)
         IN [i \in 1..Len(g.issues) |-> [selector |-> g.selector, cssIssue |-> g.issues[i]]]
            \o CssWork(Tail(groups))

HtmlEntry(issue, fields) ==
    [ruleId |-> issue.id, impact |-> issue.impact,
     suggestion |-> fields.suggestion, codeFix |-> fields.codeFix,
     nodes |-> NodeExamples(issue)]

CssEntry(w, fields) ==
    [selector |-> w.selector, type |-> w.cssIssue.type, message |-> w.cssIssue.message,
     suggestion |-> fields.suggestion, codeFix |-> fields.codeFix,
     originalCode |-> ProblematicCode(w.selector, w.cssIssue)]

StaticHtmlEntry(issue) ==
    HtmlEntry(issue, getHTMLSuggestionByRule(issue.id, NodeExamples(issue)))

StaticCssEntry(w) ==
    CssEntry(w, getCSSSuggestionByType(w.cssIssue.type, w.selector, w.cssIssue,
                                       ProblematicCode(w.selector, w.cssIssue)))

\* An outcome of model.generateContent(prompt) followed by response.text():
\* a reply text, or an exception.
Throw == [kind |-> "throw"]
Reply(text) == [kind |-> "ok", text |-> text]

\* the body of the per-issue try/catch of processHTMLIssues
HtmlIssueEntry(issue, outcome) ==
    IF outcome.kind = "ok"
    THEN HtmlEntry(issue, parseGeminiResponse(outcome.text))
    ELSE StaticHtmlEntry(issue)

\* the body of the per-issue try/catch of processCSSIssues
CssIssueEntry(w, outcome) ==
    IF outcome.kind = "ok"
    THEN CssEntry(w, parseGeminiResponse(outcome.text))
    ELSE StaticCssEntry(w)

IsHtmlReport(report) == Has(report, "type") /\ report.type = "html" /\ Has(report, "issues")
IsCssReport(report) == Has(report, "type") /\ report.type = "css" /\ Has(report, "issues")

generateRuleBasedSuggestions(report) ==
    IF IsHtmlReport(report)
    THEN [html |-> [i \in 1..Len(report.issues) |-> StaticHtmlEntry(report.issues[i])]]
    ELSE IF IsCssReport(report)
    THEN [css |-> LET w == CssWork(report.issues)
                  IN [i \in 1..Len(w) |-> StaticCssEntry(w[i])]]
    ELSE <<>>

\* the work list of the issue loop of a report
WorkOf(report) ==
    IF IsHtmlReport(report) THEN report.issues
    ELSE IF IsCssReport(report) THEN CssWork(report.issues)
    ELSE <<>>

\* what identifies the prompt of one generateContent call
PromptKey(report, w) ==
    IF IsHtmlReport(report) THEN <<"html", w.id>>
    ELSE <<"css", w.selector, w.cssIssue.type>>

IssueEntry(report, w, outcome) ==
    IF IsHtmlReport(report) THEN HtmlIssueEntry(w, outcome) ELSE CssIssueEntry(w, outcome)

Warn(what) == [level |-> "warn", what |-> what]
Error(what) == [level |-> "error", what |-> what]

\* ---- inputs of the engine ----

RuleIds == {"image-alt", "label", "custom-rule"}

\* the affected nodes the evaluator reports for a rule (their html), at least one
NodesOfRule(ruleId) ==
    CASE ruleId = "image-alt" -> <<"<img src=a>">>
      [] ruleId = "label" -> <<"<input id=x>", "<input id=y>", "<input id=z>">>
      [] OTHER -> <<"<div>", "<p>">>

ImpactOfRule(ruleId) ==
    CASE ruleId = "image-alt" -> "critical"
      [] ruleId = "label" -> "serious"
      [] OTHER -> "minor"

HtmlIssue(ruleId) == AxeRule(ruleId, ImpactOfRule(ruleId), NodesOfRule(ruleId))

\* violations lists: one entry per violated rule
HtmlIssueLists ==
    {[i \in 1..Len(ids) |-> HtmlIssue(ids[i])] :
        ids \in {q \in SeqsUpTo(RuleIds, MaxIssues) :
                    \A i, j \in 1..Len(q) : i # j => q[i] # q[j]}}

Selectors == {"a", "p"}


\* the issue lists a rule block can carry
CssGroups ==
    LET f(sel) == FocusIssue(sel, <<"none">>)
        c(sel) == ContrastIssue(sel, <<"#777">>, <<"#777">>)
    IN UNION {{[selector |-> sel, issues |-> <<f(sel)>>],
               [selector |-> sel, issues |-> <<c(sel)>>],
               [selector |-> sel, issues |-> <<f(sel), c(sel)>>]} :
              sel \in Selectors}

CssIssueLists ==
    {gs \in SeqsUpTo(CssGroups, MaxIssues) : Len(CssWork(gs)) <= MaxIssues}


SgReports ==
    {[file |-> <<<<"a", ".", "html">>>>, type |-> "html", issues |-> is] :
        is \in HtmlIssueLists}
    \cup {CssReport(<<<<"b", ".", "css">>>>, gs) : gs \in CssIssueLists}
    \cup {UnsupportedReport(<<<<"c", ".", "txt">>>>)}

\* reply texts the AI service may send back
AiReplies ==
    { <<>>,
      <<"txt">>,
      <<SUGG>>,
      <<SUGG, WS, "txt">>,
      <<CODE, WS, "txt">>,
      <<SUGG, WS, "txt", WS, CODE, WS, FENCE, "html", WS, "txt", WS, FENCE>> }

AiOutcomes == {Reply(t) : t \in AiReplies} \cup {Throw}

\* ---- processReport, step by step ----

SgInit ==
    /\ sgReport \in SgReports
    /\ sgCred \in BOOLEAN
    /\ sgReadable \in BOOLEAN
    /\ sgPc = "start"
    /\ sgIdx = 1
    /\ sgOut = <<>>
    /\ sgCalls = <<>>
    /\ sgClient = FALSE
    /\ sgLog = <<>>
    /\ sgResult = <<>>

\* the engine when it is not running
SgIdle ==
    /\ sgReport = UnsupportedReport(<<>>)
    /\ sgCred = FALSE
    /\ sgReadable = FALSE
    /\ sgPc = "idle"
    /\ sgIdx = 1
    /\ sgOut = <<>>
    /\ sgCalls = <<>>
    /\ sgClient = FALSE
    /\ sgLog = <<>>
    /\ sgResult = <<>>

\* mutant of SgNoCredential: the credential check is missing
SgNoCredential_CallsAI ==
    /\ sgPc = "start"
    /\ ~sgCred
    /\ sgClient' = TRUE
    /\ sgPc' = "loop"
    /\ UNCHANGED <<sgReport, sgCred, sgReadable, sgIdx, sgOut, sgCalls, sgLog, sgResult>>
    /\ UNCHANGED <<scVars, cliVars, fnVars, epVars>>

\* if (!process.env.GEMINI_API_KEY): warn and return the rule-based suggestions
SgNoCredential ==
    /\ sgPc = "start"
    /\ ~sgCred
    /\ sgLog' = Append(sgLog, Warn("GEMINI_API_KEY not set"))
    /\ sgResult' = <<generateRuleBasedSuggestions(sgReport)>>
    /\ sgPc' = "done"
    /\ UNCHANGED <<sgReport, sgCred, sgReadable, sgIdx, sgOut, sgCalls, sgClient>>
    /\ UNCHANGED <<scVars, cliVars, fnVars, epVars>>

\* the client is built, the file of the report is read, the issue loop starts
SgBegin ==
    /\ sgPc = "start"
    /\ sgCred
    /\ IsHtmlReport(sgReport) \/ IsCssReport(sgReport)
    /\ sgReadable
    /\ sgClient' = TRUE
    /\ sgPc' = "loop"
    /\ UNCHANGED <<sgReport, sgCred, sgReadable, sgIdx, sgOut, sgCalls, sgLog, sgResult>>
    /\ UNCHANGED <<scVars, cliVars, fnVars, epVars>>

\* fs.readFileSync throws in processHTMLIssues/processCSSIssues: the catch of
\* processReport logs and returns the rule-based suggestions
SgReadFails ==
    /\ sgPc = "start"
    /\ sgCred
    /\ IsHtmlReport(sgReport) \/ IsCssReport(sgReport)
    /\ ~sgReadable
    /\ sgClient' = TRUE
    /\ sgLog' = Append(sgLog, Error("Error generating suggestions"))
    /\ sgResult' = <<generateRuleBasedSuggestions(sgReport)>>
    /\ sgPc' = "done"
    /\ UNCHANGED <<sgReport, sgCred, sgReadable, sgIdx, sgOut, sgCalls>>
    /\ UNCHANGED <<scVars, cliVars, fnVars, epVars>>

\* a report that is neither html nor css: the empty suggestions object
SgNoType ==
    /\ sgPc = "start"
    /\ sgCred
    /\ ~(IsHtmlReport(sgReport) \/ IsCssReport(sgReport))
    /\ sgClient' = TRUE
    /\ sgResult' = << <<>> >>
    /\ sgPc' = "done"
    /\ UNCHANGED <<sgReport, sgCred, sgReadable, sgIdx, sgOut, sgCalls, sgLog>>
    /\ UNCHANGED <<scVars, cliVars, fnVars, epVars>>

\* mutant of SgIssue: the catch logs the exception and pushes nothing
SgIssue_SkipOnThrow ==
    /\ sgPc = "loop"
    /\ sgIdx <= Len(WorkOf(sgReport))
    /\ \E outcome \in AiOutcomes :
         LET w == WorkOf(sgReport)[sgIdx]
         IN /\ sgCalls' = Append(sgCalls, [prompt |-> PromptKey(sgReport, w),
                                           outcome |-> outcome])
            /\ sgOut' = IF outcome.kind = "throw" THEN sgOut
                        ELSE Append(sgOut, IssueEntry(sgReport, w, outcome))
            /\ sgLog' = IF outcome.kind = "throw"
                        THEN Append(sgLog, Error("Error generating suggestion"))
                        ELSE sgLog
    /\ sgIdx' = sgIdx + 1
    /\ UNCHANGED <<sgReport, sgCred, sgReadable, sgPc, sgClient, sgResult>>
    /\ UNCHANGED <<scVars, cliVars, fnVars, epVars>>

\* mutant of SgIssue: no try/catch around the call, so an exception reaches
\* the catch of processReport and ends the loop
SgIssue_AbortOnThrow ==
    /\ sgPc = "loop"
    /\ sgIdx <= Len(WorkOf(sgReport))
    /\ \E outcome \in AiOutcomes :
         LET w == WorkOf(sgReport)[sgIdx]
         IN /\ sgCalls' = Append(sgCalls, [prompt |-> PromptKey(sgReport, w),
                                           outcome |-> outcome])
            /\ IF outcome.kind = "throw"
               THEN /\ sgLog' = Append(sgLog, Error("Error generating suggestions"))
                    /\ sgResult' = <<generateRuleBasedSuggestions(sgReport)>>
                    /\ sgPc' = "done"
                    /\ UNCHANGED <<sgOut, sgIdx>>
               ELSE /\ sgOut' = Append(sgOut, IssueEntry(sgReport, w, outcome))
                    /\ sgIdx' = sgIdx + 1
                    /\ UNCHANGED <<sgLog, sgResult, sgPc>>
    /\ UNCHANGED <<sgReport, sgCred, sgReadable, sgClient>>
    /\ UNCHANGED <<scVars, cliVars, fnVars, epVars>>

\* one iteration of the issue loop: the prompt is sent, the reply parsed and
\* pushed, or the exception caught and the static entry pushed
SgIssue ==
    /\ sgPc = "loop"
    /\ sgIdx <= Len(WorkOf(sgReport))
    /\ \E outcome \in AiOutcomes :
         LET w == WorkOf(sgReport)[sgIdx]
         IN /\ sgCalls' = Append(sgCalls, [prompt |-> PromptKey(sgReport, w),
                                           outcome |-> outcome])
            /\ sgOut' = Append(sgOut, IssueEntry(sgReport, w, outcome))
            /\ sgLog' = IF outcome.kind = "throw"
                        THEN Append(sgLog, Error("Error generating suggestion"))
                        ELSE sgLog
    /\ sgIdx' = sgIdx + 1
    /\ UNCHANGED <<sgReport, sgCred, sgReadable, sgPc, sgClient, sgResult>>
    /\ UNCHANGED <<scVars, cliVars, fnVars, epVars>>

\* the loop is over: suggestions.html / suggestions.css is returned
SgReturn ==
    /\ sgPc = "loop"
    /\ sgIdx > Len(WorkOf(sgReport))
    /\ sgResult' = <<IF IsHtmlReport(sgReport) THEN [html |-> sgOut] ELSE [css |-> sgOut]>>
    /\ sgPc' = "done"
    /\ UNCHANGED <<sgReport, sgCred, sgReadable, sgIdx, sgOut, sgCalls, sgClient, sgLog>>
    /\ UNCHANGED <<scVars, cliVars, fnVars, epVars>>

SgNext ==
    \/ SgNoCredential
    \/ SgBegin
    \/ SgReadFails
    \/ SgNoType
    \/ SgIssue
    \/ SgReturn

-----------------------------------------------------------------------------
(* Scanner: one call of scan(filePath), step by step *)

\* ---- inputs of the scanner ----

ScPaths ==
    { << <<"a", DOT, "html">> >>,
      << <<"sub">>, <<"A", DOT, "HTML">> >>,
      << <<"b", DOT, "css">> >>,
      << <<"B", DOT, "CSS">> >>,
      << <<"c", DOT, "txt">> >>,
      << <<"noext">> >>,
      << <<"sub">>, <<DOT, "html">> >>,
      << <<"d", DOT, "html", DOT, "txt">> >>,
      << <<"e", DOT, "css", DOT, "html">> >> }

AxeErr(message) == [kind |-> "err", message |-> message]
AxeOk(violations, passes, incomplete, inapplicable) ==
    [kind |-> "ok", violations |-> violations, passes |-> passes,
     incomplete |-> incomplete, inapplicable |-> inapplicable]

\* what axe.run hands to its callback
AxeOutcomes ==
    LET noNodes(id) == AxeRule(id, "null", <<>>)
    IN {AxeErr("axe failed")}
       \cup {AxeOk(v, p, i, <<noNodes("region")>>) :
               v \in {<<>>, <<HtmlIssue("image-alt")>>,
                      <<noNodes("label"), HtmlIssue("custom-rule")>>},
               p \in {<<>>, <<AxeRule("html-lang", "null", <<"<html lang=en>">>)>>},
               i \in {<<>>, <<noNodes("color-contrast"), HtmlIssue("label")>>}}

Decl(prop, value) == [prop |-> prop, value |-> value]
Rule(selector, decls) == [type |-> "rule", selector |-> selector, decls |-> decls]
\* an at-rule (a media query, say) and the nodes inside its braces
AtRule(name, nodes) == [type |-> "atrule", name |-> name, nodes |-> nodes]

\* what postcss.parse makes of the content of a css file
Sheets ==
    { <<>>,
      <<Rule("a", <<Decl("outline", <<"none">>)>>)>>,
      <<Rule("a", <<Decl("color", <<"#777">>), Decl("background-color", <<"#fff">>)>>)>>,
      <<Rule("p", <<Decl("color", <<"#767676">>), Decl("background-color", <<"#fff">>)>>)>>,
      <<Rule("a", <<Decl("outline", <<"0", "none">>), Decl("color", <<"notacolor">>),
                    Decl("background-color", <<"#fff">>)>>)>>,
      <<AtRule("media", <<>>),
        Rule("p", <<Decl("color", <<"#000">>), Decl("color", <<"#777">>),
                    Decl("background-color", <<"#fff">>), Decl("outline", <<"none">>)>>),
        Rule("p", <<Decl("outline", <<"thin">>)>>),
        Rule("p", <<Decl("outline", <<"none">>)>>)>>,
      <<Rule("p", <<Decl("outline", <<"NONE">>)>>),
        AtRule("media", <<Rule("a", <<Decl("outline", <<"none">>)>>)>>)>> }

CssContents == {[kind |-> "syntaxError"]} \cup {[kind |-> "sheet", nodes |-> n] : n \in Sheets}

HtmlEnv(readable, axe) ==
    [readable |-> readable, axe |-> axe, content |-> [kind |-> "sheet", nodes |-> <<>>],
     lib |-> TRUE]
CssEnv(readable, content, lib) ==
    [readable |-> readable, axe |-> AxeErr("unused"), content |-> content, lib |-> lib]
NoEnv == HtmlEnv(FALSE, AxeErr("unused"))

\* the environments that matter to scan(filePath)
ScEnvs(filePath) ==
    IF Route(filePath) = "html"
    THEN {HtmlEnv(r, a) : r \in BOOLEAN, a \in AxeOutcomes}
    ELSE IF Route(filePath) = "css"
    THEN {CssEnv(r, c, l) : r \in BOOLEAN, c \in CssContents, l \in BOOLEAN}
    ELSE {HtmlEnv(r, AxeErr("unused")) : r \in BOOLEAN}

Pending == [kind |-> "pending"]

ScInit ==
    /\ scPath \in ScPaths
    /\ scEnv \in ScEnvs(scPath)
    /\ scPc = "start"
    /\ scInvoked = "none"
    /\ scReads = 0
    /\ scGlobals = <<>>
    /\ scLog = <<>>
    /\ scOutcome = Pending

\* the scanner when it is not running
ScIdle ==
    /\ scPath = <<>>
    /\ scEnv = NoEnv
    /\ scPc = "idle"
    /\ scInvoked = "none"
    /\ scReads = 0
    /\ scGlobals = <<>>
    /\ scLog = <<>>
    /\ scOutcome = Pending

\* the else branch of scan: no scanner, no read
ScanUnsupported ==
    /\ scPc = "start"
    /\ Route(scPath) = "none"
    /\ scOutcome' = scan(scPath, scEnv)
    /\ scPc' = "done"
    /\ UNCHANGED <<scPath, scEnv, scInvoked, scReads, scGlobals, scLog>>
    /\ UNCHANGED <<sgVars, cliVars, fnVars, epVars>>

\* scanHTML: fs.readFileSync throws, the async function rejects
ScanHtmlReadFails ==
    /\ scPc = "start"
    /\ Route(scPath) = "html"
    /\ ~scEnv.readable
    /\ scInvoked' = "html"
    /\ scReads' = scReads + 1
    /\ scOutcome' = scanHTML(scPath, scEnv)
    /\ scPc' = "done"
    /\ UNCHANGED <<scPath, scEnv, scGlobals, scLog>>
    /\ UNCHANGED <<sgVars, cliVars, fnVars, epVars>>

\* scanHTML up to axe.run: the file is read, the DOM built, the globals set
ScanHtmlStart ==
    /\ scPc = "start"
    /\ Route(scPath) = "html"
    /\ scEnv.readable
    /\ scInvoked' = "html"
    /\ scReads' = scReads + 1
    /\ scGlobals' = scPath
    /\ scPc' = "axe"
    /\ UNCHANGED <<scPath, scEnv, scLog, scOutcome>>
    /\ UNCHANGED <<sgVars, cliVars, fnVars, epVars>>

\* the callback of axe.run resolves the promise
AxeCallback ==
    /\ scPc = "axe"
    /\ scOutcome' = scanHTML(scPath, scEnv)
    /\ scLog' = IF scEnv.axe.kind = "err"
                THEN Append(scLog, Error("Error running axe-core")) ELSE scLog
    /\ scPc' = "done"
    /\ UNCHANGED <<scPath, scEnv, scInvoked, scReads, scGlobals>>
    /\ UNCHANGED <<sgVars, cliVars, fnVars, epVars>>

\* scanCSS: fs.readFileSync or postcss.parse throws, the async function rejects
ScanCssFails ==
    /\ scPc = "start"
    /\ Route(scPath) = "css"
    /\ ~scEnv.readable \/ scEnv.content.kind = "syntaxError"
    /\ scInvoked' = "css"
    /\ scReads' = scReads + 1
    /\ scOutcome' = scanCSS(scPath, scEnv)
    /\ scPc' = "done"
    /\ UNCHANGED <<scPath, scEnv, scGlobals, scLog>>
    /\ UNCHANGED <<sgVars, cliVars, fnVars, epVars>>

\* scanCSS: the sheet is parsed and its rules are checked
ScanCss ==
    /\ scPc = "start"
    /\ Route(scPath) = "css"
    /\ scEnv.readable /\ scEnv.content.kind = "sheet"
    /\ scInvoked' = "css"
    /\ scReads' = scReads + 1
    /\ scOutcome' = scanCSS(scPath, scEnv)
    /\ scPc' = "done"
    /\ UNCHANGED <<scPath, scEnv, scGlobals, scLog>>
    /\ UNCHANGED <<sgVars, cliVars, fnVars, epVars>>

ScNext ==
    \/ ScanUnsupported
    \/ ScanHtmlReadFails
    \/ ScanHtmlStart
    \/ AxeCallback
    \/ ScanCssFails
    \/ ScanCss

-----------------------------------------------------------------------------
(* Command line: pure parts (handleScanError, processReport as one call,     *)
(* the output mapping and the three renderers)                               *)

\* handleScanError: the minimal report built from a caught scan error
handleScanError(error, filePath) ==
    [file |-> filePath,
     type |-> IF ToLowerCase(ExtName(filePath)) = DotHtml THEN "html" ELSE "css",
     issues |-> <<>>,
     error |-> error]

\* one call of processReport: what it returns, the generateContent calls it
\* made and what it logged.  outcomes[i] is what the i-th call does.
ProcessReport(report, cred, readable, outcomes) ==
    LET w == WorkOf(report)
        key == IF IsHtmlReport(report) THEN "html" ELSE "css"
        thrown == SelectSeq(outcomes, LAMBDA o : o.kind = "throw")
    IN IF ~cred
       THEN [result |-> generateRuleBasedSuggestions(report), calls |-> <<>>,
             log |-> <<Warn("GEMINI_API_KEY not set")>>]
       ELSE IF ~(IsHtmlReport(report) \/ IsCssReport(report))
       THEN [result |-> <<>>, calls |-> <<>>, log |-> <<>>]
       ELSE IF ~readable
       THEN [result |-> generateRuleBasedSuggestions(report), calls |-> <<>>,
             log |-> <<Error("Error generating suggestions")>>]
       ELSE [result |-> [k \in {key} |->
                            [i \in 1..Len(w) |-> IssueEntry(report, w[i], outcomes[i])]],
             calls |-> [i \in 1..Len(w) |->
                            [prompt |-> PromptKey(report, w[i]), outcome |-> outcomes[i]]],
             log |-> [i \in 1..Len(thrown) |-> Error("Error generating suggestion")]]

\* result.report.issues || []
IssuesOf(report) == IF Has(report, "issues") THEN report.issues ELSE <<>>

\* one element of outputResults; ai is <<>> or <<aiSuggestions>>
OutputOf(result) ==
    IF result.ai = <<>>
    THEN [file |-> result.file, issues |-> IssuesOf(result.report)]
    ELSE [file |-> result.file, issues |-> IssuesOf(result.report),
          aiSuggestions |-> result.ai[1]]

\* results.map(result => output)
OutputResults(results) == [i \in 1..Len(results) |-> OutputOf(results[i])]

\* JSON.stringify(outputResults, null, 2): the text of the array
JsonContent(outputResults) == [format |-> "json", results |-> outputResults]

\* a value passed through escapeHTML before it is inserted
Escaped(text) == [escaped |-> text]
\* a value inserted as it is
Raw(text) == [raw |-> text]

\* aiSuggestions.html / aiSuggestions.css when present, else nothing
AiList(output, key) ==
    IF Has(output, "aiSuggestions") /\ Has(output.aiSuggestions, key)
    THEN output.aiSuggestions[key] ELSE <<>>

SuggestionBlock(s) ==
    [suggestion |-> Escaped(s.suggestion), codeFix |-> Escaped(s.codeFix)]

\* the div of one issue of the HTML report
IssueBlock(output, issue) ==
    IF Has(issue, "id")
    THEN LET ss == SelectSeq(AiList(output, "html"), LAMBDA s : s.ruleId = issue.id)
         IN [kind |-> "html", impact |-> Raw(issue.impact), id |-> Escaped(issue.id),
             description |-> Escaped(issue.description), help |-> Escaped(issue.help),
             node |-> IF issue.nodes # <<>> THEN <<Escaped(issue.nodes[1])>> ELSE <<>>,
             suggestions |-> [i \in 1..Len(ss) |-> SuggestionBlock(ss[i])]]
    ELSE LET ss == SelectSeq(AiList(output, "css"),
                             LAMBDA s : s.selector = issue.selector)
         IN [kind |-> "css", selector |-> Escaped(issue.selector),
             messages |-> [i \in 1..Len(issue.issues) |-> Escaped(issue.issues[i].message)],
             suggestions |-> [i \in 1..Len(ss) |-> SuggestionBlock(ss[i])]]

\* generateHTMLReport: one div per file, holding the issue divs or the
\* "No issues found!" paragraph
generateHTMLReport(outputResults) ==
    [format |-> "html",
     files |-> [i \in 1..Len(outputResults) |->
                  LET o == outputResults[i]
                  IN [file |-> Raw(o.file),
                      noIssues |-> o.issues = <<>>,
                      issues |-> [j \in 1..Len(o.issues) |-> IssueBlock(o, o.issues[j])]]]]

\* path.basename
BaseName(path) == IF path = <<>> THEN <<>> ELSE path[Len(path)]

TableLine(kind) == [kind |-> kind]
TableRow(file, issue, impact, description, suggestion) ==
    [kind |-> "row", file |-> file, issue |-> issue, impact |-> impact,
     description |-> description, suggestion |-> suggestion]

\* Array.prototype.find, given the matching elements in order: <<the first
\* match>> or <<>>
Find(matching) == IF matching = <<>> THEN <<>> ELSE <<matching[1]>>

\* the lines printTableReport prints for one HTML issue
HtmlIssueLines(fileName, output, issue) ==
    LET found == Find(SelectSeq(AiList(output, "html"), LAMBDA s : s.ruleId = issue.id))
        suggestion == IF found = <<>> THEN <<"No AI suggestion available">>
                      ELSE found[1].suggestion
    IN <<TableRow(fileName, issue.id, issue.impact, issue.description, suggestion)>>
       \o (IF issue.nodes = <<>> THEN <<>>
           ELSE <<[kind |-> "affected", html |-> issue.nodes[1]]>>
                \o (IF found # <<>> /\ found[1].codeFix # <<>>
                    THEN <<[kind |-> "fix", codeFix |-> found[1].codeFix]>> ELSE <<>>)
                \o <<TableLine("separator")>>)

\* the lines printTableReport prints for one CSS sub-issue
CssIssueLines(fileName, output, group, cssIssue) ==
    LET found == Find(SelectSeq(AiList(output, "css"),
                                LAMBDA s : s.selector = group.selector
                                           /\ s.type = cssIssue.type))
        suggestion == IF found = <<>> THEN <<"No AI suggestion available">>
                      ELSE found[1].suggestion
    IN <<TableRow(fileName, cssIssue.type, "N/A", cssIssue.message, suggestion),
         [kind |-> "selector", selector |-> group.selector],
         [kind |-> "declarations",
          code |-> ProblematicCode(group.selector, cssIssue)[2]]>>
       \o (IF found # <<>> /\ found[1].codeFix # <<>>
           THEN <<[kind |-> "fix", codeFix |-> found[1].codeFix]>> ELSE <<>>)
       \o <<TableLine("separator")>>

IssueLines(fileName, output, issue) ==
    IF Has(issue, "id") THEN HtmlIssueLines(fileName, output, issue)
    ELSE Flatten([i \in 1..Len(issue.issues) |->
                    CssIssueLines(fileName, output, issue, issue.issues[i])])

\* printTableReport: everything it prints, in order
printTableReport(outputResults) ==
    <<TableLine("banner"), TableLine("title"), TableLine("banner"),
      TableRow("FILE", "ISSUE", "IMPACT", "DESCRIPTION", "SUGGESTION"),
      TableLine("separator")>>
    \o Flatten([i \in 1..Len(outputResults) |->
                  LET o == outputResults[i]
                  IN Flatten([j \in 1..Len(o.issues) |->
                                IssueLines(BaseName(o.file), o, o.issues[j])])])
    \o <<TableLine("scan-complete")>>

-----------------------------------------------------------------------------
(* Command line: the action of the scan command, step by step *)

\* ---- inputs of the command line ----

File(name) == [name |-> name, kind |-> "file"]
Dir(name) == [name |-> name, kind |-> "dir"]

\* the entries a directory can turn out to hold, in the order readdirSync
\* lists them
EntryPool ==
    << File(<<"E", DOT, "HTML">>), File(<<"a", DOT, "html">>),
       File(<<"b", DOT, "css">>), File(<<"c", DOT, "txt">>),
       Dir(<<"d", DOT, "css">>), Dir(<<"sub">>) >>

RECURSIVE Pick(_, _, _)
Pick(pool, S, i) ==
    IF i > Len(pool) THEN <<>>
    ELSE (IF i \in S THEN <<pool[i]>> ELSE <<>>) \o Pick(pool, S, i + 1)

\* the listings of a directory when the tree may still have budget entries
Listings(budget) ==
    {Pick(EntryPool, S, 1) :
        S \in {T \in SUBSET (1..Len(EntryPool)) : Cardinality(T) <= budget}}

\* what scanning a file met during a run can do
RunEnvs(filePath) ==
    IF Route(filePath) = "html"
    THEN {HtmlEnv(FALSE, AxeErr("unused")),
          HtmlEnv(TRUE, AxeErr("axe failed")),
          HtmlEnv(TRUE, AxeOk(<<HtmlIssue("image-alt")>>, <<>>, <<>>, <<>>))}
    ELSE IF Route(filePath) = "css"
    THEN {CssEnv(FALSE, [kind |-> "syntaxError"], TRUE),
          CssEnv(TRUE, [kind |-> "syntaxError"], TRUE),
          CssEnv(TRUE, [kind |-> "sheet",
                        nodes |-> <<Rule("a", <<Decl("outline", <<"none">>)>>)>>], TRUE)}
    ELSE {NoEnv}

RootDir == << <<"site">> >>

CliInputs ==
    {[kind |-> "missing", path |-> << <<"nowhere">> >>],
     [kind |-> "dir", path |-> RootDir],
     [kind |-> "file", path |-> << <<"a", DOT, "html">> >>],
     [kind |-> "file", path |-> << <<"c", DOT, "txt">> >>]}

ReportValues == {"table", "json", "html", "xml"}

CliOptions ==
    {[report |-> r, output |-> o, ai |-> a] :
        r \in ReportValues, o \in BOOLEAN, a \in BOOLEAN}

\* replies of the AI service during a run
RunAiOutcomes == {Throw, Reply(<<"txt">>), Reply(<<SUGG, WS, "txt">>)}

OutputName == "report.out"

\* ---- lines of output ----

Line(kind, what) == [kind |-> kind, what |-> what]

\* the exception reached the catch of the action: message and exit code 1
Escapes(what) ==
    /\ cliStderr' = Append(cliStderr, Line("scan-error", what))
    /\ cliExit' = "1"
    /\ cliPc' = "done"

\* scanning is over: the AI phase starts if --ai was given
AfterScan(stdout) ==
    /\ cliPc' = IF cliOpts.ai THEN "ai" ELSE "output"
    /\ cliStdout' = IF cliOpts.ai
                    THEN Append(stdout, Line("generating", "AI suggestions"))
                    ELSE stdout

\* try { report = await scanner.scan(path) } catch { handleScanError }
ScanAndPush(filePath, env) ==
    LET outcome == scan(filePath, env)
    IN /\ cliResults' = Append(cliResults,
                               [file |-> filePath,
                                report |-> IF outcome.kind = "resolved" THEN outcome.value
                                           ELSE handleScanError(outcome.error, filePath),
                                ai |-> <<>>])
       /\ cliStderr' = IF outcome.kind = "rejected"
                       THEN Append(cliStderr, Line("warning", filePath))
                       ELSE IF Route(filePath) = "html" /\ Has(outcome.value, "error")
                       THEN Append(cliStderr, Line("error", "Error running axe-core"))
                       ELSE cliStderr
       /\ cliTrace' = Append(cliTrace, [ev |-> "scan", file |-> filePath,
                                        outcome |-> outcome])

CliInitWith(inputs, options, creds, budget) ==
    /\ cliInput \in inputs
    /\ cliOpts \in options
    /\ cliCred \in creds
    /\ cliPc = "start"
    /\ cliStack = <<>>
    /\ cliResults = <<>>
    /\ cliAiIdx = 1
    /\ cliStdout = <<>>
    /\ cliStderr = <<>>
    /\ cliFiles = <<>>
    /\ cliExit = "running"
    /\ cliTrace = <<>>
    /\ fsBudget = budget

\* a whole run of the command
CliInit == CliInitWith(CliInputs, CliOptions, BOOLEAN, MaxCliEntries)

\* a run over a directory, looked at up to the end of the walk
WalkInit ==
    CliInitWith({[kind |-> "dir", path |-> RootDir]},
                {[report |-> "table", output |-> FALSE, ai |-> FALSE]},
                {FALSE}, MaxEntries)

\* the command when it is not running
CliIdle ==
    /\ cliInput = [kind |-> "missing", path |-> <<>>]
    /\ cliOpts = [report |-> "table", output |-> FALSE, ai |-> FALSE]
    /\ cliCred = FALSE
    /\ cliPc = "idle"
    /\ cliStack = <<>>
    /\ cliResults = <<>>
    /\ cliAiIdx = 1
    /\ cliStdout = <<>>
    /\ cliStderr = <<>>
    /\ cliFiles = <<>>
    /\ cliExit = "running"
    /\ cliTrace = <<>>
    /\ fsBudget = 0

\* ---- actions ----

\* if (!fs.existsSync(input)): error and exit code 1
StartMissing ==
    /\ cliPc = "start"
    /\ cliInput.kind = "missing"
    /\ cliStderr' = Append(cliStderr, Line("error-missing", cliInput.path))
    /\ cliExit' = "1"
    /\ cliPc' = "done"
    /\ UNCHANGED <<cliInput, cliOpts, cliCred, cliStack, cliResults, cliAiIdx,
                   cliStdout, cliFiles, cliTrace, fsBudget>>
    /\ UNCHANGED <<sgVars, scVars, fnVars, epVars>>

\* stats.isFile(): the one file is scanned, whatever its extension
StartFile ==
    /\ cliPc = "start"
    /\ cliInput.kind = "file"
    /\ \E env \in RunEnvs(cliInput.path) : ScanAndPush(cliInput.path, env)
    /\ AfterScan(Append(cliStdout, Line("scanning-file", cliInput.path)))
    /\ UNCHANGED <<cliInput, cliOpts, cliCred, cliStack, cliAiIdx, cliFiles,
                   cliExit, fsBudget>>
    /\ UNCHANGED <<sgVars, scVars, fnVars, epVars>>

\* stats.isDirectory(): walkDirectory(input) is called
StartDir ==
    /\ cliPc = "start"
    /\ cliInput.kind = "dir"
    /\ cliStdout' = Append(cliStdout, Line("scanning-directory", cliInput.path))
    /\ cliStack' = <<[dir |-> cliInput.path, listed |-> FALSE, todo |-> <<>>]>>
    /\ cliPc' = "walk"
    /\ UNCHANGED <<cliInput, cliOpts, cliCred, cliResults, cliAiIdx, cliStderr,
                   cliFiles, cliExit, cliTrace, fsBudget>>
    /\ UNCHANGED <<sgVars, scVars, fnVars, epVars>>

Top == cliStack[Len(cliStack)]
Walking == cliPc = "walk" /\ cliStack # <<>>
SetTop(frame) == [cliStack EXCEPT ![Len(cliStack)] = frame]
RestOfTop == [Top EXCEPT !.todo = Tail(Top.todo)]

\* fs.readdirSync(dir) returns the entries of the directory
WalkReaddir ==
    /\ Walking
    /\ ~Top.listed
    /\ \E listing \in Listings(fsBudget) :
         /\ cliStack' = SetTop([Top EXCEPT !.listed = TRUE, !.todo = listing])
         /\ fsBudget' = fsBudget - Len(listing)
         /\ cliTrace' = Append(cliTrace, [ev |-> "list", dir |-> Top.dir,
                                          entries |-> listing])
    /\ UNCHANGED <<cliInput, cliOpts, cliCred, cliPc, cliResults, cliAiIdx,
                   cliStdout, cliStderr, cliFiles, cliExit>>
    /\ UNCHANGED <<sgVars, scVars, fnVars, epVars>>

\* fs.readdirSync(dir) throws (a directory that cannot be read): nothing in
\* walkDirectory catches it
WalkReaddirFails ==
    /\ Walking
    /\ ~Top.listed
    /\ Escapes(Top.dir)
    /\ cliTrace' = Append(cliTrace, [ev |-> "listfail", dir |-> Top.dir])
    /\ UNCHANGED <<cliInput, cliOpts, cliCred, cliStack, cliResults, cliAiIdx,
                   cliStdout, cliFiles, fsBudget>>
    /\ UNCHANGED <<sgVars, scVars, fnVars, epVars>>

\* mutant of WalkDescend: a directory is passed over
WalkDescend_PassOver ==
    /\ Walking
    /\ Top.listed /\ Top.todo # <<>>
    /\ Head(Top.todo).kind = "dir"
    /\ cliStack' = SetTop(RestOfTop)
    /\ UNCHANGED <<cliInput, cliOpts, cliCred, cliPc, cliResults, cliAiIdx,
                   cliStdout, cliStderr, cliFiles, cliExit, cliTrace, fsBudget>>
    /\ UNCHANGED <<sgVars, scVars, fnVars, epVars>>

\* fileStats.isDirectory(): await walkDirectory(fullPath)
WalkDescend ==
    /\ Walking
    /\ Top.listed /\ Top.todo # <<>>
    /\ Head(Top.todo).kind = "dir"
    /\ cliStack' = Append(SetTop(RestOfTop),
                          [dir |-> Join(Top.dir, Head(Top.todo).name),
                           listed |-> FALSE, todo |-> <<>>])
    /\ UNCHANGED <<cliInput, cliOpts, cliCred, cliPc, cliResults, cliAiIdx,
                   cliStdout, cliStderr, cliFiles, cliExit, cliTrace, fsBudget>>
    /\ UNCHANGED <<sgVars, scVars, fnVars, epVars>>

\* ['.html', '.css'].includes(path.extname(fullPath))
Scannable(fullPath) == ExtName(fullPath) \in {DotHtml, DotCss}

\* mutant of WalkFile: no try/catch around the scan, a rejected scan reaches
\* the catch of the action
WalkFile_NoCatch ==
    /\ Walking
    /\ Top.listed /\ Top.todo # <<>>
    /\ Head(Top.todo).kind = "file"
    /\ LET fullPath == Join(Top.dir, Head(Top.todo).name)
       IN /\ Scannable(fullPath)
          /\ \E env \in RunEnvs(fullPath) :
               IF scan(fullPath, env).kind = "resolved"
               THEN /\ ScanAndPush(fullPath, env)
                    /\ cliStdout' = Append(cliStdout, Line("scanning-file", fullPath))
                    /\ UNCHANGED <<cliPc, cliExit>>
               ELSE /\ Escapes(fullPath)
                    /\ cliTrace' = Append(cliTrace, [ev |-> "scan", file |-> fullPath,
                                                     outcome |-> scan(fullPath, env)])
                    /\ cliStdout' = Append(cliStdout, Line("scanning-file", fullPath))
                    /\ UNCHANGED cliResults
    /\ cliStack' = SetTop(RestOfTop)
    /\ UNCHANGED <<cliInput, cliOpts, cliCred, cliAiIdx, cliFiles, fsBudget>>
    /\ UNCHANGED <<sgVars, scVars, fnVars, epVars>>

\* a file with one of the two extensions: scanned inside try/catch
WalkFile ==
    /\ Walking
    /\ Top.listed /\ Top.todo # <<>>
    /\ Head(Top.todo).kind = "file"
    /\ LET fullPath == Join(Top.dir, Head(Top.todo).name)
       IN /\ Scannable(fullPath)
          /\ cliStdout' = Append(cliStdout, Line("scanning-file", fullPath))
          /\ \E env \in RunEnvs(fullPath) : ScanAndPush(fullPath, env)
    /\ cliStack' = SetTop(RestOfTop)
    /\ UNCHANGED <<cliInput, cliOpts, cliCred, cliPc, cliAiIdx, cliFiles,
                   cliExit, fsBudget>>
    /\ UNCHANGED <<sgVars, scVars, fnVars, epVars>>

\* any other file: nothing happens
WalkSkip ==
    /\ Walking
    /\ Top.listed /\ Top.todo # <<>>
    /\ Head(Top.todo).kind = "file"
    /\ ~Scannable(Join(Top.dir, Head(Top.todo).name))
    /\ cliStack' = SetTop(RestOfTop)
    /\ UNCHANGED <<cliInput, cliOpts, cliCred, cliPc, cliResults, cliAiIdx,
                   cliStdout, cliStderr, cliFiles, cliExit, cliTrace, fsBudget>>
    /\ UNCHANGED <<sgVars, scVars, fnVars, epVars>>

\* the for loop of a walkDirectory call is over: the call returns
WalkReturn ==
    /\ Walking
    /\ Top.listed /\ Top.todo = <<>>
    /\ cliStack' = SubSeq(cliStack, 1, Len(cliStack) - 1)
    /\ IF Len(cliStack) = 1
       THEN AfterScan(cliStdout)
       ELSE UNCHANGED <<cliPc, cliStdout>>
    /\ UNCHANGED <<cliInput, cliOpts, cliCred, cliResults, cliAiIdx, cliStderr,
                   cliFiles, cliExit, cliTrace, fsBudget>>
    /\ UNCHANGED <<sgVars, scVars, fnVars, epVars>>

\* what the calls of one processReport can do: the file of the report can be
\* read or not, and every generateContent call replies or throws
AiChoices(report) ==
    IF cliCred /\ (IsHtmlReport(report) \/ IsCssReport(report))
    THEN {[readable |-> FALSE, outcomes |-> <<>>]}
         \cup {[readable |-> TRUE, outcomes |-> o] :
                 o \in [1..Len(WorkOf(report)) -> RunAiOutcomes]}
    ELSE {[readable |-> TRUE, outcomes |-> <<>>]}

\* one iteration of the loop over results of the AI phase
AiResult ==
    /\ cliPc = "ai"
    /\ cliAiIdx <= Len(cliResults)
    /\ \E c \in AiChoices(cliResults[cliAiIdx].report) :
         LET r == ProcessReport(cliResults[cliAiIdx].report, cliCred,
                                c.readable, c.outcomes)
         IN /\ cliResults' = [cliResults EXCEPT ![cliAiIdx].ai = <<r.result>>]
            /\ cliStderr' = cliStderr \o
                              [i \in 1..Len(r.log) |-> Line(r.log[i].level, r.log[i].what)]
            /\ cliTrace' = Append(cliTrace, [ev |-> "ai",
                                             file |-> cliResults[cliAiIdx].file,
                                             calls |-> r.calls])
    /\ cliAiIdx' = cliAiIdx + 1
    /\ UNCHANGED <<cliInput, cliOpts, cliCred, cliPc, cliStack, cliStdout,
                   cliFiles, cliExit, fsBudget>>
    /\ UNCHANGED <<sgVars, scVars, fnVars, epVars>>

\* the loop over results is over
AiDone ==
    /\ cliPc = "ai"
    /\ cliAiIdx > Len(cliResults)
    /\ cliPc' = "output"
    /\ UNCHANGED <<cliInput, cliOpts, cliCred, cliStack, cliResults, cliAiIdx,
                   cliStdout, cliStderr, cliFiles, cliExit, cliTrace, fsBudget>>
    /\ UNCHANGED <<sgVars, scVars, fnVars, epVars>>

\* outputContent of the json and html formats
OutputContent ==
    IF cliOpts.report = "json" THEN JsonContent(OutputResults(cliResults))
    ELSE generateHTMLReport(OutputResults(cliResults))

Saved == Line("saved", OutputName)

\* options.report === 'table': the table is printed and the action returns
PrintTable ==
    /\ cliPc = "output"
    /\ cliOpts.report = "table"
    /\ cliStdout' = cliStdout \o printTableReport(OutputResults(cliResults))
    /\ cliExit' = "0"
    /\ cliPc' = "done"
    /\ UNCHANGED <<cliInput, cliOpts, cliCred, cliStack, cliResults, cliAiIdx,
                   cliStderr, cliFiles, cliTrace, fsBudget>>
    /\ UNCHANGED <<sgVars, scVars, fnVars, epVars>>

\* mutant of BadFormat: the error is printed, the exit code stays 0
BadFormat_ExitZero ==
    /\ cliPc = "output"
    /\ cliOpts.report \notin {"json", "html", "table"}
    /\ cliStderr' = Append(cliStderr, Line("error-format", cliOpts.report))
    /\ cliExit' = "0"
    /\ cliPc' = "done"
    /\ UNCHANGED <<cliInput, cliOpts, cliCred, cliStack, cliResults, cliAiIdx,
                   cliStdout, cliFiles, cliTrace, fsBudget>>
    /\ UNCHANGED <<sgVars, scVars, fnVars, epVars>>

\* any other --report value: error and exit code 1
BadFormat ==
    /\ cliPc = "output"
    /\ cliOpts.report \notin {"json", "html", "table"}
    /\ cliStderr' = Append(cliStderr, Line("error-format", cliOpts.report))
    /\ cliExit' = "1"
    /\ cliPc' = "done"
    /\ UNCHANGED <<cliInput, cliOpts, cliCred, cliStack, cliResults, cliAiIdx,
                   cliStdout, cliFiles, cliTrace, fsBudget>>
    /\ UNCHANGED <<sgVars, scVars, fnVars, epVars>>

\* mutant of WriteFile: the content is printed as well
WriteFile_AlsoPrints ==
    /\ cliPc = "output"
    /\ cliOpts.report \in {"json", "html"}
    /\ cliOpts.output
    /\ cliFiles' = Append(cliFiles, [name |-> OutputName, content |-> OutputContent])
    /\ cliStdout' = cliStdout \o <<Saved, Line("content", OutputContent)>>
    /\ cliExit' = "0"
    /\ cliPc' = "done"
    /\ UNCHANGED <<cliInput, cliOpts, cliCred, cliStack, cliResults, cliAiIdx,
                   cliStderr, cliTrace, fsBudget>>
    /\ UNCHANGED <<sgVars, scVars, fnVars, epVars>>

\* mutant of WriteFile: the file is written without a word
WriteFile_Silent ==
    /\ cliPc = "output"
    /\ cliOpts.report \in {"json", "html"}
    /\ cliOpts.output
    /\ cliFiles' = Append(cliFiles, [name |-> OutputName, content |-> OutputContent])
    /\ cliExit' = "0"
    /\ cliPc' = "done"
    /\ UNCHANGED <<cliInput, cliOpts, cliCred, cliStack, cliResults, cliAiIdx,
                   cliStdout, cliStderr, cliTrace, fsBudget>>
    /\ UNCHANGED <<sgVars, scVars, fnVars, epVars>>

\* json or html with --output: fs.writeFileSync, then the confirmation line;
\* when the write throws, the catch of the action reports it
WriteFile ==
    /\ cliPc = "output"
    /\ cliOpts.report \in {"json", "html"}
    /\ cliOpts.output
    /\ \/ /\ cliFiles' = Append(cliFiles, [name |-> OutputName,
                                           content |-> OutputContent])
          /\ cliStdout' = Append(cliStdout, Saved)
          /\ cliExit' = "0"
          /\ cliPc' = "done"
          /\ UNCHANGED <<cliStderr, cliTrace>>
       \/ /\ Escapes(OutputName)
          /\ cliTrace' = Append(cliTrace, [ev |-> "writefail", file |-> OutputName])
          /\ UNCHANGED <<cliFiles, cliStdout>>
    /\ UNCHANGED <<cliInput, cliOpts, cliCred, cliStack, cliResults, cliAiIdx,
                   fsBudget>>
    /\ UNCHANGED <<sgVars, scVars, fnVars, epVars>>

\* json or html without --output: console.log(outputContent)
PrintContent ==
    /\ cliPc = "output"
    /\ cliOpts.report \in {"json", "html"}
    /\ ~cliOpts.output
    /\ cliStdout' = Append(cliStdout, Line("content", OutputContent))
    /\ cliExit' = "0"
    /\ cliPc' = "done"
    /\ UNCHANGED <<cliInput, cliOpts, cliCred, cliStack, cliResults, cliAiIdx,
                   cliStderr, cliFiles, cliTrace, fsBudget>>
    /\ UNCHANGED <<sgVars, scVars, fnVars, epVars>>

WalkNext ==
    \/ StartDir
    \/ WalkReaddir
    \/ WalkReaddirFails
    \/ WalkDescend
    \/ WalkFile
    \/ WalkSkip
    \/ WalkReturn

CliNext ==
    \/ StartMissing
    \/ StartFile
    \/ WalkNext
    \/ AiResult
    \/ AiDone
    \/ PrintTable
    \/ BadFormat
    \/ WriteFile
    \/ PrintContent

-----------------------------------------------------------------------------
(* The HTML report as text: a text is a sequence of characters *)

\* String.prototype.replace(/c/g, by)
ReplaceAll(text, c, by) ==
    Flatten([i \in 1..Len(text) |-> IF text[i] = c THEN by ELSE <<text[i]>>])

\* escapeHTML: five replacements, one after the other; '' for a falsy text
escapeHTML(text) ==
    LET amp == ReplaceAll(text, "&", <<"&", "a", "m", "p", ";">>)
        lt == ReplaceAll(amp, "<", <<"&", "l", "t", ";">>)
        gt == ReplaceAll(lt, ">", <<"&", "g", "t", ";">>)
        quot == ReplaceAll(gt, "\"", <<"&", "q", "u", "o", "t", ";">>)
    IN ReplaceAll(quot, "'", <<"&", "#", "0", "3", "9", ";">>)

\* the characters an interpolation of the template puts into the document
InsertedText(m) == IF Has(m, "escaped") THEN escapeHTML(m.escaped) ELSE m.raw

\* one interpolation: the slot of the template, the value and the characters
Piece(slot, m) ==
    [slot |-> slot,
     source |-> IF Has(m, "escaped") THEN m.escaped ELSE m.raw,
     text |-> InsertedText(m)]

SuggestionPieces(ss) ==
    Flatten([i \in 1..Len(ss) |->
               <<Piece("suggestion", ss[i].suggestion), Piece("codeFix", ss[i].codeFix)>>])

\* the interpolations of the div of one issue, in document order
IssuePieces(b) ==
    IF b.kind = "html"
    THEN <<Piece("impact", b.impact), Piece("id", b.id),
           Piece("description", b.description), Piece("help", b.help)>>
         \o [i \in 1..Len(b.node) |-> Piece("node", b.node[i])]
         \o SuggestionPieces(b.suggestions)
    ELSE <<Piece("selector", b.selector)>>
         \o [i \in 1..Len(b.messages) |-> Piece("message", b.messages[i])]
         \o SuggestionPieces(b.suggestions)

\* every interpolation of the document generateHTMLReport returns, in order
DocumentTexts(doc) ==
    Flatten([i \in 1..Len(doc.files) |->
               <<Piece("file", doc.files[i].file)>>
               \o Flatten([j \in 1..Len(doc.files[i].issues) |->
                             IssuePieces(doc.files[i].issues[j])])])

\* ---- inputs ----

Chars == {"a", "&", "<", ">", "\"", "'"}
Texts == SeqsUpTo(Chars, MaxText)
Plain == <<"a">>

HtmlSlots == {"file", "id", "impact", "description", "help", "node",
              "suggestion", "codeFix"}
CssSlots == {"selector", "message", "css-suggestion", "css-codeFix"}

\* outputResults of one file with one HTML issue and its suggestion, the text
\* t in one place
HtmlSlotInput(slot, t) ==
    LET v(s) == IF s = slot THEN t ELSE Plain
    IN <<[file |-> v("file"),
          issues |-> <<[id |-> v("id"), impact |-> v("impact"),
                        description |-> v("description"), help |-> v("help"),
                        nodes |-> <<v("node")>>]>>,
          aiSuggestions |->
              [html |-> <<[ruleId |-> v("id"), impact |-> v("impact"),
                           suggestion |-> v("suggestion"), codeFix |-> v("codeFix"),
                           nodes |-> <<v("node")>>]>>]]>>

\* outputResults of one file with one CSS group and its suggestion
CssSlotInput(slot, t) ==
    LET v(s) == IF s = slot THEN t ELSE Plain
    IN <<[file |-> Plain,
          issues |-> <<[selector |-> v("selector"),
                        issues |-> <<[type |-> "FocusStyle", message |-> v("message"),
                                      declaration |-> <<"outline", <<"none">>>>]>>]>>,
          aiSuggestions |->
              [css |-> <<[selector |-> v("selector"), type |-> "FocusStyle",
                          message |-> v("message"),
                          suggestion |-> v("css-suggestion"),
                          codeFix |-> v("css-codeFix"),
                          originalCode |-> <<>>]>>]]>>

HtmlReportInputs ==
    {HtmlSlotInput(slot, t) : slot \in HtmlSlots, t \in Texts}
    \cup {CssSlotInput(slot, t) : slot \in CssSlots, t \in Texts}

FnInit(inputs) ==
    /\ fnInput \in inputs
    /\ fnPc = "call"
    /\ fnOutput = <<>>

\* no function is being called
FnIdle ==
    /\ fnInput = <<>>
    /\ fnPc = "idle"
    /\ fnOutput = <<>>

\* generateHTMLReport(outputResults) returns the document
RenderHtmlReport ==
    /\ fnPc = "call"
    /\ fnOutput' = DocumentTexts(generateHTMLReport(fnInput))
    /\ fnPc' = "done"
    /\ UNCHANGED fnInput
    /\ UNCHANGED <<sgVars, scVars, cliVars, epVars>>

-----------------------------------------------------------------------------
(* The renderers called on the results of one file with its suggestions *)

\* the reports of scans that found something
RenderReports ==
    {[file |-> << <<"a", DOT, "html">> >>, type |-> "html", issues |-> is] :
        is \in HtmlIssueLists \ {<<>>}}
    \cup {r \in {CssReport(<< <<"b", DOT, "css">> >>, CssIssues(sheet, TRUE)) :
                   sheet \in Sheets} : r.issues # <<>>}

\* outputResults for the report, after processReport with a credential
RenderResults(report, outcomes) ==
    OutputResults(<<[file |-> report.file, report |-> report,
                     ai |-> <<ProcessReport(report, TRUE, TRUE, outcomes).result>>]>>)

RenderInputs ==
    UNION {{[fn |-> f, results |-> RenderResults(r, o)] :
               f \in {"printTableReport", "generateHTMLReport"},
               o \in [1..Len(WorkOf(r)) -> RunAiOutcomes]} :
           r \in RenderReports}

\* printTableReport(outputResults) prints its lines
CallPrintTableReport ==
    /\ fnPc = "call"
    /\ fnInput.fn = "printTableReport"
    /\ fnOutput' = printTableReport(fnInput.results)
    /\ fnPc' = "done"
    /\ UNCHANGED fnInput
    /\ UNCHANGED <<sgVars, scVars, cliVars, epVars>>

\* generateHTMLReport(outputResults) returns the document
CallGenerateHTMLReport ==
    /\ fnPc = "call"
    /\ fnInput.fn = "generateHTMLReport"
    /\ fnOutput' = generateHTMLReport(fnInput.results)
    /\ fnPc' = "done"
    /\ UNCHANGED fnInput
    /\ UNCHANGED <<sgVars, scVars, cliVars, epVars>>

RenderNext ==
    \/ CallPrintTableReport
    \/ CallGenerateHTMLReport

-----------------------------------------------------------------------------
(* parseGeminiResponse called on a reply text *)

\* the chunks a reply text is made of
ReplyChunks == {SUGG, CODE, WS, FENCE, "html", "txt"}

ReplyTexts == SeqsUpTo(ReplyChunks, MaxReply)

\* parseGeminiResponse(response) returns {suggestion, codeFix}
CallParseGeminiResponse ==
    /\ fnPc = "call"
    /\ fnOutput' = parseGeminiResponse(fnInput)
    /\ fnPc' = "done"
    /\ UNCHANGED fnInput
    /\ UNCHANGED <<sgVars, scVars, cliVars, epVars>>

-----------------------------------------------------------------------------
(* The table layout: wrapText.  A text is a sequence of characters. *)

\* String.prototype.substring(0, n): n below 0 counts as 0, n beyond the end
\* as the length
Substring(t, n) == SubSeq(t, 1, Min(Max(n, 0), Len(t)))

\* text.split(' ')
RECURSIVE SplitOnSpace(_)
SplitOnSpace(t) ==
    LET i == IndexFrom(t, " ", 1)
    IN IF i > Len(t) THEN <<t>>
       ELSE <<SubSeq(t, 1, i - 1)>> \o SplitOnSpace(SubSeq(t, i + 1, Len(t)))

Dots == <<".", ".", ".">>

\* the body of words.forEach: st is [lines, currentLine]
WrapWord(st, word, maxWidth) ==
    IF Len(st.currentLine) + 1 + Len(word) <= maxWidth
    THEN [st EXCEPT !.currentLine =
              st.currentLine \o (IF st.currentLine # <<>> THEN <<" ">> ELSE <<>>) \o word]
    ELSE [lines |-> st.lines \o (IF st.currentLine # <<>> THEN <<st.currentLine>> ELSE <<>>),
          currentLine |-> IF Len(word) > maxWidth
                          THEN Substring(word, maxWidth - 3) \o Dots
                          ELSE word]

RECURSIVE WrapWords(_, _, _)
WrapWords(st, words, maxWidth) ==
    IF words = <<>> THEN st
    ELSE WrapWords(WrapWord(st, Head(words), maxWidth), Tail(words), maxWidth)

\* wrapText(text, maxWidth): the lines of the cell
wrapText(text, maxWidth) ==
    IF text = <<>> \/ Len(text) <= maxWidth THEN <<text>>
    ELSE LET st == WrapWords([lines |-> <<>>, currentLine |-> <<>>],
                             SplitOnSpace(text), maxWidth)
         IN st.lines \o (IF st.currentLine # <<>> THEN <<st.currentLine>> ELSE <<>>)

\* the characters of a cell text
CellChars == {"a", " "}

WrapInputs ==
    {[text |-> t, maxWidth |-> w] : t \in SeqsUpTo(CellChars, MaxWrapText), w \in 1..MaxWidth}

\* wrapText(text, maxWidth) returns its lines
CallWrapText ==
    /\ fnPc = "call"
    /\ fnOutput' = wrapText(fnInput.text, fnInput.maxWidth)
    /\ fnPc' = "done"
    /\ UNCHANGED fnInput
    /\ UNCHANGED <<sgVars, scVars, cliVars, epVars>>

-----------------------------------------------------------------------------
(* The table layout: column widths and formatRow *)

\* process.stdout.columns || 120, then Math.min(terminalWidth, 140); columns
\* is 0 when the width is not detected
TerminalWidth(columns) == Min(IF columns = 0 THEN 120 ELSE columns, 140)

\* Math.floor(terminalWidth * 0.15) and so on
ColumnWidths(terminalWidth) ==
    [file |-> (terminalWidth * 15) \div 100,
     issue |-> (terminalWidth * 12) \div 100,
     impact |-> (terminalWidth * 8) \div 100,
     description |-> (terminalWidth * 32) \div 100,
     suggestion |-> (terminalWidth * 33) \div 100]

\* Object.values(columnWidths).reduce((a, b) => a + b, 0) + 4
TotalWidth(cw) == cw.file + cw.issue + cw.impact + cw.description + cw.suggestion + 4

\* String.prototype.repeat and padEnd
Repeat(c, n) == [i \in 1..n |-> c]
PadEnd(t, n) == t \o Repeat(" ", n - Len(t))

\* text.substring(0, width).padEnd(width)
Cell(t, width) == PadEnd(Substring(t, width), width)

\* wrapped[i] || ''
LineOrEmpty(wrapped, i) == IF i <= Len(wrapped) THEN wrapped[i] ELSE <<>>

\* [ ... ].join('|')
JoinCells(c1, c2, c3, c4, c5) ==
    c1 \o <<"|">> \o c2 \o <<"|">> \o c3 \o <<"|">> \o c4 \o <<"|">> \o c5

\* formatRow: the lines console.log prints for the row
formatRow(cw, file, issue, impact, description, suggestion) ==
    LET wrappedDesc == wrapText(description, cw.description)
        wrappedSuggestion == wrapText(suggestion, cw.suggestion)
        maxLines == Max(1, Max(Len(wrappedDesc), Len(wrappedSuggestion)))
    IN IF maxLines = 1
       THEN <<JoinCells(Cell(file, cw.file), Cell(issue, cw.issue),
                        Cell(impact, cw.impact), Cell(description, cw.description),
                        Cell(suggestion, cw.suggestion))>>
       ELSE [i \in 1..maxLines |->
               JoinCells(IF i = 1 THEN Cell(file, cw.file) ELSE PadEnd(<<>>, cw.file),
                         IF i = 1 THEN Cell(issue, cw.issue) ELSE PadEnd(<<>>, cw.issue),
                         IF i = 1 THEN Cell(impact, cw.impact) ELSE PadEnd(<<>>, cw.impact),
                         PadEnd(LineOrEmpty(wrappedDesc, i), cw.description),
                         PadEnd(LineOrEmpty(wrappedSuggestion, i), cw.suggestion))]

\* the banner, the header row, the separator and the row of one issue, as
\* printTableReport prints them
TableLayout(in) ==
    LET terminalWidth == TerminalWidth(in.columns)
        cw == ColumnWidths(terminalWidth)
        totalWidth == TotalWidth(cw)
    IN [terminalWidth |-> terminalWidth,
        totalWidth |-> totalWidth,
        banner |-> Repeat("=", totalWidth),
        header |-> formatRow(cw, <<"F", "I", "L", "E">>, <<"I", "S", "S", "U", "E">>,
                             <<"I", "M", "P", "A", "C", "T">>,
                             <<"D", "E", "S", "C", "R", "I", "P", "T", "I", "O", "N">>,
                             <<"S", "U", "G", "G", "E", "S", "T", "I", "O", "N">>),
        separator |-> Repeat("-", totalWidth),
        row |-> formatRow(cw, in.file, in.issue, in.impact, in.description, in.suggestion)]

\* a text of words of n letters each
RECURSIVE Sentence(_, _)
Sentence(words, n) ==
    IF words = 0 THEN <<>>
    ELSE IF words = 1 THEN Repeat("a", n)
    ELSE Repeat("a", n) \o <<" ">> \o Sentence(words - 1, n)

\* cell texts: empty, short, one long word, several words
LayoutTexts == {<<>>, Sentence(1, 3), Sentence(1, MaxWord), Sentence(MaxWords, 9)}

LayoutInputs ==
    {[columns |-> c, file |-> f, issue |-> <<"i", "d">>, impact |-> <<"N", "/", "A">>,
      description |-> d, suggestion |-> g] :
        c \in 0..MaxColumns, f \in {Sentence(1, 3), Sentence(1, MaxWord)},
        d \in LayoutTexts, g \in LayoutTexts}

\* printTableReport lays out and prints the head of the table and one row
PrintTableRow ==
    /\ fnPc = "call"
    /\ fnOutput' = TableLayout(fnInput)
    /\ fnPc' = "done"
    /\ UNCHANGED fnInput
    /\ UNCHANGED <<sgVars, scVars, cliVars, epVars>>

-----------------------------------------------------------------------------
(* The scans of a run, in the two entry points, and the evaluator's globals *)

EpFilePool ==
    { << <<"a", DOT, "html">> >>, << <<"b", DOT, "html">> >>, << <<"c", DOT, "css">> >> }

\* the files of a run: different files, in the order the traversal meets them
EpFileLists ==
    {fs \in SeqsUpTo(EpFilePool, MaxScanFiles) :
        fs # <<>> /\ \A i, j \in 1..Len(fs) : i # j => fs[i] # fs[j]}

EpInit ==
    /\ epEntry \in {"cli", "old"}
    /\ epFiles \in EpFileLists
    /\ epNext = 1
    /\ epGlobals = <<>>
    /\ epRunning = {}
    /\ epResults = <<>>
    /\ epReads = {}

\* no run of an entry point
EpIdle ==
    /\ epEntry = "none"
    /\ epFiles = <<>>
    /\ epNext = 1
    /\ epGlobals = <<>>
    /\ epRunning = {}
    /\ epResults = <<>>
    /\ epReads = {}

\* scanHTML up to the return of the promise: global.window = window, axe.run
\* is started; scans of other files leave the globals alone
StartedGlobals(file) == IF Route(file) = "html" THEN file ELSE epGlobals
StartedRunning(file) == IF Route(file) = "html" THEN epRunning \cup {file} ELSE epRunning

\* bin/cli.js: const report = await scanner.scan(fullPath) inside for...of:
\* the next scan starts when the promise of the previous one has settled
CliScanNext ==
    /\ epEntry = "cli"
    /\ epNext <= Len(epFiles)
    /\ epRunning = {}
    /\ epGlobals' = StartedGlobals(epFiles[epNext])
    /\ epRunning' = StartedRunning(epFiles[epNext])
    /\ epResults' = IF Route(epFiles[epNext]) = "html" THEN epResults
                   ELSE Append(epResults, [file |-> epFiles[epNext], report |-> "report"])
    /\ epNext' = epNext + 1
    /\ UNCHANGED <<epEntry, epFiles, epReads>>
    /\ UNCHANGED <<sgVars, scVars, cliVars, fnVars>>

\* bin/cli.js: the callback of axe.run resolves, the await returns and the
\* result is pushed
CliAxeCallback ==
    /\ epEntry = "cli"
    /\ \E f \in epRunning :
         /\ epRunning' = epRunning \ {f}
         /\ epResults' = Append(epResults, [file |-> f, report |-> "report"])
    /\ UNCHANGED <<epEntry, epFiles, epNext, epGlobals, epReads>>
    /\ UNCHANGED <<sgVars, scVars, cliVars, fnVars>>

\* the earlier command: files.forEach(file => { const report =
\* scanner.scan(fullPath); results.push({file, report}) }): the promise is
\* pushed and the next file follows at once
OldScanNext ==
    /\ epEntry = "old"
    /\ epNext <= Len(epFiles)
    /\ epGlobals' = StartedGlobals(epFiles[epNext])
    /\ epRunning' = StartedRunning(epFiles[epNext])
    /\ epResults' = Append(epResults, [file |-> epFiles[epNext], report |-> "promise"])
    /\ epNext' = epNext + 1
    /\ UNCHANGED <<epEntry, epFiles, epReads>>
    /\ UNCHANGED <<sgVars, scVars, cliVars, fnVars>>

\* the earlier command: a callback of axe.run resolves a promise of the list;
\* callbacks run after the synchronous forEach is over
OldAxeCallback ==
    /\ epEntry = "old"
    /\ epNext > Len(epFiles)
    /\ \E f \in epRunning : epRunning' = epRunning \ {f}
    /\ UNCHANGED <<epEntry, epFiles, epNext, epGlobals, epResults, epReads>>
    /\ UNCHANGED <<sgVars, scVars, cliVars, fnVars>>

\* the evaluator, at work on file f between axe.run and its callback, reads
\* the global window and document; in the earlier command this too comes
\* after the synchronous forEach
AxeReadsGlobals ==
    /\ epEntry = "old" => epNext > Len(epFiles)
    /\ \E f \in epRunning :
         /\ [file |-> f, globals |-> epGlobals] \notin epReads
         /\ epReads' = epReads \cup {[file |-> f, globals |-> epGlobals]}
    /\ UNCHANGED <<epEntry, epFiles, epNext, epGlobals, epRunning, epResults>>
    /\ UNCHANGED <<sgVars, scVars, cliVars, fnVars>>

EpNext ==
    \/ CliScanNext
    \/ CliAxeCallback
    \/ OldScanNext
    \/ OldAxeCallback
    \/ AxeReadsGlobals

-----------------------------------------------------------------------------
(* Specifications *)

\* one call of processReport
SuggestInit == SgInit /\ ScIdle /\ CliIdle /\ FnIdle /\ EpIdle
SpecSuggest == SuggestInit /\ [][SgNext]_vars

\* one call of scan
ScanInit == ScInit /\ SgIdle /\ CliIdle /\ FnIdle /\ EpIdle
SpecScan == ScanInit /\ [][ScNext]_vars

\* a run over a directory, up to the return of walkDirectory
WalkRunInit == WalkInit /\ SgIdle /\ ScIdle /\ FnIdle /\ EpIdle
SpecWalk == WalkRunInit /\ [][WalkNext]_vars

\* a whole run of the scan command
CliRunInit == CliInit /\ SgIdle /\ ScIdle /\ FnIdle /\ EpIdle
SpecCli == CliRunInit /\ [][CliNext]_vars

\* one call of generateHTMLReport
HtmlReportInit == FnInit(HtmlReportInputs) /\ SgIdle /\ ScIdle /\ CliIdle /\ EpIdle
SpecHtmlReport == HtmlReportInit /\ [][RenderHtmlReport]_vars

\* one call of a renderer on results that carry suggestions
RenderInit == FnInit(RenderInputs) /\ SgIdle /\ ScIdle /\ CliIdle /\ EpIdle
SpecRender == RenderInit /\ [][RenderNext]_vars

\* one call of parseGeminiResponse
ParseInit == FnInit(ReplyTexts) /\ SgIdle /\ ScIdle /\ CliIdle /\ EpIdle
SpecParse == ParseInit /\ [][CallParseGeminiResponse]_vars

\* one call of wrapText
WrapInit == FnInit(WrapInputs) /\ SgIdle /\ ScIdle /\ CliIdle /\ EpIdle
SpecWrap == WrapInit /\ [][CallWrapText]_vars

\* the head of the table and one row, for a terminal width
LayoutInit == FnInit(LayoutInputs) /\ SgIdle /\ ScIdle /\ CliIdle /\ EpIdle
SpecLayout == LayoutInit /\ [][PrintTableRow]_vars

\* the scans of one run of either entry point
EntryPointsInit == EpInit /\ SgIdle /\ ScIdle /\ CliIdle /\ FnIdle
SpecEntryPoints == EntryPointsInit /\ [][EpNext]_vars

-----------------------------------------------------------------------------
(* Claims about the suggestion engine (checked under SpecSuggest) *)

SgTyped == IsHtmlReport(sgReport) \/ IsCssReport(sgReport)
SgReturned == sgPc = "done" /\ sgResult # <<>>

\* the suggestions array processReport returned for the report's type
SgList ==
    LET res == sgResult[1]
    IN IF IsHtmlReport(sgReport) /\ Has(res, "html") THEN res.html
       ELSE IF IsCssReport(sgReport) /\ Has(res, "css") THEN res.css
       ELSE <<>>

\* entry e carries the correlating key of work item w
SameKey(e, w) ==
    IF IsHtmlReport(sgReport) THEN e.ruleId = w.id
    ELSE e.selector = w.selector /\ e.type = w.cssIssue.type

\* the entry is the one the static table yields for the work item
IsStaticEntry(e, w) ==
    IF IsHtmlReport(sgReport)
    THEN LET ex == NodeExamples(w)[1]
         IN IF w.id \in KnownRules
            THEN /\ e.suggestion = <<RuleSuggestionText(w.id)>>
                 /\ e.codeFix = RuleCodeFix(w.id, ex)
            ELSE /\ e.suggestion = <<"Fix accessibility issues related to ", w.id,
                                     " by following WCAG guidelines.">>
                 /\ e.codeFix = <<"codeFix", "default", ex>>
    ELSE e = StaticCssEntry(w)

\* C1: once processReport has returned for an html or css report, whatever the
\* credential and whatever the AI calls did (reply, arbitrary text, exception),
\* the returned list holds one entry per issue, in issue order, each with the
\* rule id (HTML) or the selector and type (CSS) of its issue.
C1_EveryIssueHasAnEntry ==
    (SgReturned /\ SgTyped) =>
        LET w == WorkOf(sgReport)
        IN /\ Has(sgResult[1], IF IsHtmlReport(sgReport) THEN "html" ELSE "css")
           /\ Len(SgList) = Len(w)
           /\ \A i \in 1..Len(w) : SameKey(SgList[i], w[i])

C1_Witness ==
    /\ SgReturned /\ SgTyped /\ sgCred
    /\ Len(WorkOf(sgReport)) >= 2
    /\ \E i, j \in 1..Len(sgCalls) :
          /\ sgCalls[i].outcome = Throw
          /\ sgCalls[j].outcome = Reply(<<"txt">>)

\* C2: without a credential no client is ever constructed and generateContent
\* is never called, and what processReport returns holds, for every issue, the
\* suggestion and the code fix of the static table for its rule id or CSS type.
C2_NoCredentialMeansStaticOnly ==
    ~sgCred =>
        /\ ~sgClient
        /\ sgCalls = <<>>
        /\ (SgReturned /\ SgTyped) =>
              LET w == WorkOf(sgReport)
              IN /\ Len(SgList) = Len(w)
                 /\ \A i \in 1..Len(w) :
                       SameKey(SgList[i], w[i]) /\ IsStaticEntry(SgList[i], w[i])

C2_Witness ==
    /\ ~sgCred /\ SgReturned /\ SgTyped
    /\ Len(WorkOf(sgReport)) >= 2
    /\ Len(SgList) = Len(WorkOf(sgReport))

\* the reply matches neither pattern: both extracted fields are empty
BothFieldsEmpty(text) == ParseSuggestion(text) = <<>> /\ ParseCodeFix(text) = <<>>

\* C3: with a credential, an issue whose AI reply yields an empty suggestion
\* and an empty code fix is recorded with the static-table suggestion.
C3_EmptyReplyFallsBackToStatic ==
    sgCred =>
        \A i \in 1..Len(sgOut) :
            (sgCalls[i].outcome.kind = "ok" /\ BothFieldsEmpty(sgCalls[i].outcome.text))
                => IsStaticEntry(sgOut[i], WorkOf(sgReport)[i])

\* C4: with a credential, an AI call that throws gives its own issue the static
\* entry and nothing else: every issue of the report is sent to the AI client,
\* in order, and an issue whose call returned keeps the fields parsed from its
\* own reply.
C4_ThrowFallsBackForThatIssueOnly ==
    LET w == WorkOf(sgReport)
    IN /\ Len(sgCalls) = Len(sgOut)
       /\ \A i \in 1..Len(sgOut) :
             /\ sgCalls[i].prompt = PromptKey(sgReport, w[i])
             /\ SameKey(sgOut[i], w[i])
             /\ sgCalls[i].outcome.kind = "throw" => IsStaticEntry(sgOut[i], w[i])
             /\ sgCalls[i].outcome.kind = "ok" =>
                   /\ sgOut[i].suggestion = ParseSuggestion(sgCalls[i].outcome.text)
                   /\ sgOut[i].codeFix = ParseCodeFix(sgCalls[i].outcome.text)
       /\ (SgReturned /\ sgCred /\ sgReadable /\ SgTyped) =>
             /\ Len(sgCalls) = Len(w)
             /\ SgList = sgOut

C4_Witness ==
    /\ SgReturned /\ sgCred
    /\ Len(sgCalls) >= 2
    /\ sgCalls[1].outcome = Throw
    /\ sgCalls[2].outcome = Reply(<<SUGG, WS, "txt">>)
    /\ SgList[2].suggestion = <<"txt">>

-----------------------------------------------------------------------------
(* Claims about the scanner (checked under SpecScan) *)

ScDone == scPc = "done"
ScExt == ToLowerCase(ExtName(scPath))
ScResolved == scOutcome.kind = "resolved"

\* the result is an object with a type and an issues array, and carries the
\* evaluator's message when the evaluator failed
ScHtmlResultShape ==
    /\ ScResolved
    /\ Has(scOutcome.value, "type") /\ Has(scOutcome.value, "issues")
    /\ scEnv.axe.kind = "err" =>
          /\ scOutcome.value.type = "html"
          /\ scOutcome.value.issues = <<>>
          /\ Has(scOutcome.value, "error")
          /\ scOutcome.value.error = scEnv.axe.message

\* C7 (as stated): scan of a path with the html extension never rejects; it
\* resolves to an object with a type and an issues array, and on an evaluator
\* failure to type html, no issues and the evaluator's message.
C7_HtmlScanNeverRejects ==
    ScExt = DotHtml =>
        /\ scOutcome.kind # "rejected"
        /\ ScDone => ScHtmlResultShape

\* C7 (amended): scan of a path with the html extension whose file can be read
\* never rejects; it resolves to an object with a type and an issues array, and
\* on an evaluator failure to type html, no issues and the evaluator's message.
\* When the file cannot be read the promise rejects with the read error.
C7_ReadableHtmlScanResolves ==
    ScExt = DotHtml =>
        /\ scEnv.readable =>
              /\ scOutcome.kind # "rejected"
              /\ ScDone => ScHtmlResultShape
        /\ (~scEnv.readable /\ ScDone) => scOutcome.kind = "rejected"

C7_Witness ==
    /\ ScDone /\ ScExt = DotHtml /\ scEnv.readable
    /\ scEnv.axe.kind = "err"
    /\ ScResolved /\ scOutcome.value.error = "axe failed"

\* the text of the path ends with the chunks of suffix
EndsWith(path, suffix) ==
    /\ path # <<>>
    /\ LET name == path[Len(path)]
       IN /\ Len(name) >= Len(suffix)
          /\ SubSeq(name, Len(name) - Len(suffix) + 1, Len(name)) = suffix

\* scan() ended as the unsupported branch does
ScUnsupportedOutcome ==
    /\ ScResolved
    /\ Has(scOutcome.value, "error") /\ ~Has(scOutcome.value, "issues")
    /\ ~Has(scOutcome.value, "type")
    /\ scOutcome.value.error = "Unsupported file type"
    /\ scOutcome.value.file = scPath
    /\ scInvoked = "none"
    /\ scReads = 0

ScHandledBy(kind) ==
    /\ scInvoked = kind
    /\ ScResolved => (Has(scOutcome.value, "type") /\ scOutcome.value.type = kind)

\* C8 (as stated): a path ending in .html goes to the HTML scanner, a path
\* ending in .css to the CSS scanner, and any other path returns the
\* unsupported-type object with no issues, no scanner invoked and no file read.
C8_RoutesByPathEnding ==
    ScDone =>
        IF EndsWith(scPath, DotHtml) THEN ScHandledBy("html")
        ELSE IF EndsWith(scPath, DotCss) THEN ScHandledBy("css")
        ELSE ScUnsupportedOutcome

\* C8 (amended): scan routes by path.extname of the path, lowercased: the
\* extension .html in any letter case goes to the HTML scanner, .css in any
\* letter case to the CSS scanner, and any other path (a base name that is
\* only ".html" has no extension) returns the unsupported-type object with no
\* issues, no scanner invoked and no file read.
C8_RoutesByLowercasedExtension ==
    ScDone =>
        IF ScExt = DotHtml THEN ScHandledBy("html")
        ELSE IF ScExt = DotCss THEN ScHandledBy("css")
        ELSE ScUnsupportedOutcome

C8_Witness ==
    /\ ScDone
    /\ ExtName(scPath) = <<DOT, "HTML">>
    /\ scInvoked = "html"
    /\ ScResolved /\ scOutcome.value.type = "html"

-----------------------------------------------------------------------------
(* Claims about the directory walk (checked under SpecWalk) *)

Lists == SelectSeq(cliTrace, LAMBDA e : e.ev = "list")
Scans == SelectSeq(cliTrace, LAMBDA e : e.ev = "scan")

\* walkDirectory(input) has returned to the action
WalkReturned ==
    /\ cliInput.kind = "dir"
    /\ cliPc \in {"ai", "output", "done"}
    /\ \A i \in 1..Len(cliTrace) : cliTrace[i].ev # "listfail"

\* the paths of the entries of the given kind the walk has met so far
Listed(kind) ==
    UNION {{Join(Lists[i].dir, Lists[i].entries[j].name) :
               j \in {k \in 1..Len(Lists[i].entries) : Lists[i].entries[k].kind = kind}} :
           i \in 1..Len(Lists)}

HasScanExtension(filePath) == ExtName(filePath) = DotHtml \/ ExtName(filePath) = DotCss

ResultsFor(filePath) == {i \in 1..Len(cliResults) : cliResults[i].file = filePath}

ErrorShaped(report) ==
    /\ Has(report, "error") /\ report.error # ""
    /\ Has(report, "issues") /\ report.issues = <<>>

\* the scan failed: the promise rejected, or the evaluator reported an error
ScanFailed(outcome) ==
    outcome.kind = "rejected" \/ Has(outcome.value, "error")

C6_WalkScansExactlyTheTwoExtensions ==
    /\ \A i \in 1..Len(cliResults) :
          /\ cliResults[i].file \in Listed("file")
          /\ HasScanExtension(cliResults[i].file)
    /\ \A f \in Listed("file") : Cardinality(ResultsFor(f)) <= 1
    /\ WalkReturned =>
          /\ \A f \in Listed("file") :
                HasScanExtension(f) => Cardinality(ResultsFor(f)) = 1
          /\ \A d \in Listed("dir") : \E i \in 1..Len(Lists) : Lists[i].dir = d

C6_Witness ==
    /\ WalkReturned
    /\ Join(RootDir, <<"a", DOT, "html">>) \in Listed("file")
    /\ Join(RootDir, <<"c", DOT, "txt">>) \in Listed("file")
    /\ Join(Join(RootDir, <<"sub">>), <<"b", DOT, "css">>) \in Listed("file")
    /\ Len(cliResults) = 2

-----------------------------------------------------------------------------
(* Claims about the output of a run (checked under SpecCli) *)

Succeeded == cliPc = "done" /\ cliExit = "0"
ContentLines == SelectSeq(cliStdout, LAMBDA l : l.kind = "content")
Confirmations == SelectSeq(cliStdout, LAMBDA l : l.kind = "saved")

\* the file named by --output holds the report, and no other file was written
ReportFileWritten ==
    /\ Len(cliFiles) = 1
    /\ cliFiles[1].name = OutputName
    /\ cliFiles[1].content = OutputContent

\* C9: in json or html mode the report content has one target.  With --output
\* it is never printed, and a run that succeeds has written it to the named
\* file and printed the confirmation line; without --output no file is ever
\* written, and a run that succeeds has printed it once.
C9_ContentGoesToOneTarget ==
    cliOpts.report \in {"json", "html"} =>
        IF cliOpts.output
        THEN /\ ContentLines = <<>>
             /\ Succeeded => (ReportFileWritten /\ Len(Confirmations) = 1)
        ELSE /\ cliFiles = <<>>
             /\ Confirmations = <<>>
             /\ Succeeded =>
                   (Len(ContentLines) = 1 /\ ContentLines[1].what = OutputContent)

C9_Witness ==
    /\ Succeeded
    /\ cliOpts.report = "json" /\ cliOpts.output
    /\ cliResults # <<>>
    /\ ReportFileWritten
    /\ ContentLines = <<>>

\* the last lines of standard output are the table of the results
TablePrinted ==
    LET table == printTableReport(OutputResults(cliResults))
        n == Len(cliStdout)
    IN /\ n >= Len(table)
       /\ SubSeq(cliStdout, n - Len(table) + 1, n) = table

\* C10: a run that succeeds with --output in json or html mode has written
\* the report to the named file and printed the confirmation line; a run that
\* succeeds in table mode has printed the table, with or without --output.
C10_OutputRunsWriteAndConfirm ==
    Succeeded =>
        IF cliOpts.report = "table" THEN TablePrinted
        ELSE cliOpts.output => (ReportFileWritten /\ Confirmations = <<Saved>>)

C10_Witness ==
    /\ Succeeded
    /\ cliOpts.output
    /\ cliOpts.report = "html"
    /\ cliInput.kind = "dir" /\ Len(cliResults) = 2
    /\ ReportFileWritten
    /\ Confirmations = <<Saved>>

C10_TableWitness ==
    /\ Succeeded
    /\ cliOpts.output /\ cliOpts.report = "table"
    /\ cliResults # <<>>
    /\ TablePrinted

-----------------------------------------------------------------------------
(* Claims about the end of a run (checked under SpecCli) *)

Ended == cliPc = "done"
InputMissing == cliInput.kind = "missing"
BadReport == cliOpts.report \notin {"table", "json", "html"}
Happened(ev) == \E i \in 1..Len(cliTrace) : cliTrace[i].ev = ev

\* an exception left the scanning of the input: a directory could not be listed
ScanEscaped == Happened("listfail")
\* fs.writeFileSync threw
WriteFailed == Happened("writefail")

\* some per-file scan error was caught and turned into a result
CaughtFileError ==
    \E i \in 1..Len(cliResults) :
        Has(cliResults[i].report, "error") /\ Has(cliResults[i].report, "type")

\* C11 (as stated): a run ends with exit code 1 exactly when the input path
\* does not exist, the --report value is not table, json or html, or an
\* exception escaped scanning; every other run ends without exit code 1.
C11_ExitOneInThreeCases ==
    /\ ~Ended => cliExit = "running"
    /\ Ended => (cliExit = "1" <=> (InputMissing \/ BadReport \/ ScanEscaped))

\* C11 (amended): a run ends with exit code 1 exactly when the input path does
\* not exist, the --report value is not table, json or html, an exception
\* escaped scanning, or the report file could not be written; every other run,
\* whatever per-file errors were caught, ends with exit code 0.
C11_ExitOneInFourCases ==
    /\ ~Ended => cliExit = "running"
    /\ Ended => /\ cliExit \in {"0", "1"}
                /\ cliExit = "1" <=>
                      (InputMissing \/ BadReport \/ ScanEscaped \/ WriteFailed)

C11_Witness ==
    /\ Ended /\ cliExit = "1"
    /\ BadReport /\ ~InputMissing /\ ~ScanEscaped
    /\ CaughtFileError

C11_CaughtWitness ==
    /\ Ended /\ cliExit = "0"
    /\ CaughtFileError

AiEvents == SelectSeq(cliTrace, LAMBDA e : e.ev = "ai")

\* C12: in a run given a --report value other than table, json or html, or an
\* input path that does not exist, nothing is ever written to standard output,
\* no file is written, no file is scanned and processReport is never called;
\* the run ends with exit code 1 and an error on standard error.
C12_FatalConfigWritesNothing ==
    (BadReport \/ InputMissing) =>
        /\ cliStdout = <<>>
        /\ cliFiles = <<>>
        /\ Scans = <<>>
        /\ AiEvents = <<>>
        /\ Ended => (cliExit = "1" /\ cliStderr # <<>>)

-----------------------------------------------------------------------------
(* Claims about the HTML report (checked under SpecHtmlReport) *)

Entity(c) ==
    CASE c = "&" -> <<"&", "a", "m", "p", ";">>
      [] c = "<" -> <<"&", "l", "t", ";">>
      [] c = ">" -> <<"&", "g", "t", ";">>
      [] c = "\"" -> <<"&", "q", "u", "o", "t", ";">>
      [] c = "'" -> <<"&", "#", "0", "3", "9", ";">>
      [] OTHER -> <<c>>

\* the text with each of the five characters replaced by its entity
WithEntities(text) == Flatten([i \in 1..Len(text) |-> Entity(text[i])])

\* C13: every value generateHTMLReport inserts into the document (file path,
\* rule id, impact, description, help, node snippet, selector, CSS message,
\* suggestion, code fix) is inserted with each of the five characters replaced
\* by its entity, so no inserted value holds a character of markup.
C13_AllInsertedContentEscaped ==
    fnPc = "done" =>
        \A i \in 1..Len(fnOutput) :
            /\ fnOutput[i].text = WithEntities(fnOutput[i].source)
            /\ \A k \in 1..Len(fnOutput[i].text) :
                  fnOutput[i].text[k] \notin {"<", ">", "\"", "'"}

\* what does hold: every inserted value but the file path and the impact
C13_EscapedButFileAndImpact ==
    fnPc = "done" =>
        \A i \in 1..Len(fnOutput) :
            fnOutput[i].slot \notin {"file", "impact"} =>
                fnOutput[i].text = WithEntities(fnOutput[i].source)

-----------------------------------------------------------------------------
(* Claims about the CSS scan (checked under SpecScan) *)

\* scanCSS has returned its result for a sheet
CssScanned ==
    /\ ScDone /\ ScExt = DotCss
    /\ ScResolved
    /\ scEnv.content.kind = "sheet"

TopRules(nodes) == SelectSeq(nodes, LAMBDA n : n.type = "rule")

\* the rule blocks of the sheet at any depth; at-rules are one level deep here
AllRules(nodes) ==
    Flatten([i \in 1..Len(nodes) |->
               IF nodes[i].type = "rule" THEN <<nodes[i]>>
               ELSE TopRules(nodes[i].nodes)])

\* the block has an outline declaration whose value contains none
RemovesOutline(rule) ==
    \E i \in 1..Len(rule.decls) :
        /\ rule.decls[i].prop = "outline"
        /\ \E k \in 1..Len(rule.decls[i].value) : rule.decls[i].value[k] = "none"

HasIssueOfType(group, type) ==
    \E k \in 1..Len(group.issues) : group.issues[k].type = type

\* the result has a group for the selector holding an issue of the type
Flagged(selector, type) ==
    \E g \in 1..Len(scOutcome.value.issues) :
        /\ scOutcome.value.issues[g].selector = selector
        /\ HasIssueOfType(scOutcome.value.issues[g], type)

\* C14 (as stated): every rule block of the file, wherever it sits, that has
\* an outline declaration with none in its value gets a group for its selector
\* with a FocusStyle issue.
C14_EveryBlockWithOutlineNone ==
    CssScanned =>
        \A r \in Range(AllRules(scEnv.content.nodes)) :
            RemovesOutline(r) => Flagged(r.selector, "FocusStyle")

\* C14 (amended): every top-level rule block of the file that has an outline
\* declaration with none in its value gets a group for its selector with a
\* FocusStyle issue, whatever else it declares and wherever it stands among
\* the top-level nodes; blocks inside an at-rule are not looked at.
C14_EveryTopLevelBlockWithOutlineNone ==
    CssScanned =>
        /\ \A r \in Range(TopRules(scEnv.content.nodes)) :
              RemovesOutline(r) => Flagged(r.selector, "FocusStyle")
        /\ \A r \in Range(AllRules(scEnv.content.nodes)) :
              (\A t \in Range(TopRules(scEnv.content.nodes)) : t.selector # r.selector)
                  => ~Flagged(r.selector, "FocusStyle")

C14_Witness ==
    /\ CssScanned
    /\ Len(scEnv.content.nodes) >= 3
    /\ scEnv.content.nodes[1].type = "atrule"
    /\ RemovesOutline(scEnv.content.nodes[2])
    /\ Len(scEnv.content.nodes[2].decls) >= 3
    /\ Flagged(scEnv.content.nodes[2].selector, "FocusStyle")

\* the value of the last declaration of the property in the block, <<>> if none
LastDeclared(rule, prop) ==
    LET at == {i \in 1..Len(rule.decls) : rule.decls[i].prop = prop}
    IN IF at = {} THEN <<>>
       ELSE rule.decls[CHOOSE i \in at : \A j \in at : j <= i].value

Parses(value) == Len(value) = 1 /\ value[1] \in ParseableColors

\* the contrast ratio of the two colours is below 4.5 (luminosities in
\* thousandths: (L1 + 0.05) / (L2 + 0.05) < 4.5)
RatioBelowMinimum(c1, c2) ==
    LET l1 == Luminosity(c1[1])
        l2 == Luminosity(c2[1])
        hi == IF l1 >= l2 THEN l1 ELSE l2
        lo == IF l1 >= l2 THEN l2 ELSE l1
    IN 10 * (hi + 50) < 45 * (lo + 50)

\* the block declares both colours, the ratio of the last-declared values can
\* be computed and is below 4.5
LowContrast(rule) ==
    LET c == LastDeclared(rule, "color")
        b == LastDeclared(rule, "background-color")
    IN /\ c # <<>> /\ b # <<>>
       /\ scEnv.lib /\ Parses(c) /\ Parses(b)
       /\ RatioBelowMinimum(c, b)

SelectorsOf(seq) == [i \in 1..Len(seq) |-> seq[i].selector]

ContrastIssuesOf(group) == SelectSeq(group.issues, LAMBDA i : i.type = "ColorContrast")

C15_NoIssueWitness ==
    /\ CssScanned /\ scEnv.lib
    /\ scOutcome.value.issues = <<>>
    /\ \E r \in Range(TopRules(scEnv.content.nodes)) :
          /\ Parses(LastDeclared(r, "color")) /\ Parses(LastDeclared(r, "background-color"))
          /\ ~RatioBelowMinimum(LastDeclared(r, "color"), LastDeclared(r, "background-color"))

-----------------------------------------------------------------------------
(* Claims about suggestions in the reports (checked under SpecRender) *)

Rendered == fnPc = "done"
RenderedFile == fnInput.results[1]
RenderedIsHtml == Has(RenderedFile.aiSuggestions, "html")

\* the suggestions processReport generated, one per issue, in issue order
Generated ==
    IF RenderedIsHtml THEN RenderedFile.aiSuggestions.html
    ELSE RenderedFile.aiSuggestions.css

\* the rows of the table below the header row
IssueRows == Tail(SelectSeq(fnOutput, LAMBDA l : l.kind = "row"))

\* number of CSS sub-issues in the groups before group j
RECURSIVE IssuesBefore(_, _)
IssuesBefore(groups, j) ==
    IF j <= 1 THEN 0 ELSE Len(groups[j - 1].issues) + IssuesBefore(groups, j - 1)

\* the suggestions generated for the issue (HTML) or for the sub-issues of the
\* group (CSS) at position j of the file's issue list
GeneratedFor(j) ==
    IF RenderedIsHtml THEN <<Generated[j]>>
    ELSE LET from == IssuesBefore(RenderedFile.issues, j)
         IN [i \in 1..Len(RenderedFile.issues[j].issues) |-> Generated[from + i]]

\* in the table every issue row shows the suggestion generated for its issue
TablePairsEachIssue ==
    /\ Len(IssueRows) = Len(Generated)
    /\ \A k \in 1..Len(IssueRows) : IssueRows[k].suggestion = Generated[k].suggestion

\* in the document every issue div shows the suggestions generated for it and
\* no other
DocumentPairsEachIssue ==
    LET divs == fnOutput.files[1].issues
    IN /\ Len(divs) = Len(RenderedFile.issues)
       /\ \A j \in 1..Len(divs) :
             LET mine == GeneratedFor(j)
             IN divs[j].suggestions = [i \in 1..Len(mine) |-> SuggestionBlock(mine[i])]

\* C16: in the table and in the HTML report every issue is rendered with the
\* suggestion generated for it and with no suggestion generated for another
\* issue, also when two rule blocks share a selector.
C16_EachIssueShowsItsOwnSuggestion ==
    Rendered =>
        IF fnInput.fn = "printTableReport" THEN TablePairsEachIssue
        ELSE DocumentPairsEachIssue

\* no two groups of the rendered file have the same selector
SelectorsDiffer ==
    RenderedIsHtml \/
    \A i, j \in 1..Len(RenderedFile.issues) :
        i # j => RenderedFile.issues[i].selector # RenderedFile.issues[j].selector

\* what does hold: the pairing is right whenever the selectors of a file differ
C16_RightWhenSelectorsDiffer ==
    (Rendered /\ SelectorsDiffer) =>
        IF fnInput.fn = "printTableReport" THEN TablePairsEachIssue
        ELSE DocumentPairsEachIssue

-----------------------------------------------------------------------------
(* Claims about the AI phase of a run (checked under SpecCli) *)

IsScanOf(i, file) == cliTrace[i].ev = "scan" /\ cliTrace[i].file = file
IsScan(i) == cliTrace[i].ev = "scan"
\* processReport of a file that made generateContent calls
IsAiWithCalls(i) == cliTrace[i].ev = "ai" /\ cliTrace[i].calls # <<>>

\* C17: in a run with --ai the processing is file by file: the scan of a file
\* and all the AI calls for it are over before the scan of the next file begins,
\* so no other scan lies between the scan of a file and its AI calls.
C17_AiCallsFollowTheirScan ==
    cliOpts.ai =>
        \A k \in 1..Len(cliTrace) :
            IsAiWithCalls(k) =>
                ~ \E p, q \in 1..k :
                      p < q /\ q < k /\ IsScanOf(p, cliTrace[k].file) /\ IsScan(q)

\* what does hold: every scan of the run is over before the first processReport
\* call, and processReport is called for the results in scan order
C17_AllScansBeforeAiPhase ==
    /\ \A i, j \in 1..Len(cliTrace) :
          (cliTrace[i].ev = "scan" /\ cliTrace[j].ev = "ai") => i < j
    /\ \A k \in 1..Len(AiEvents) : AiEvents[k].file = Scans[k].file

\* the AI phase of a run with --ai and no credential is over, for some files
AiPhaseOverWithoutCredential ==
    /\ cliOpts.ai /\ ~cliCred
    /\ cliPc \in {"output", "done"}
    /\ cliAiIdx > Len(cliResults)
    /\ cliResults # <<>>

\* the lines console.warn wrote
Warnings == SelectSeq(cliStderr, LAMBDA l : l.kind = "warn")
\* the lines console.error wrote inside scan and processReport
ErrorLines == SelectSeq(cliStderr, LAMBDA l : l.kind = "error")

LoggedAsWarningOnly ==
    /\ \A i \in 1..Len(Warnings) : Warnings[i].what = "GEMINI_API_KEY not set"
    /\ \A i \in 1..Len(ErrorLines) : ErrorLines[i].what # "GEMINI_API_KEY not set"

\* C18: in a run with --ai and no credential the missing credential is logged
\* exactly once for the whole batch, however many files it has, and as a
\* warning, not as an error.
C18_OneWarningPerBatch ==
    AiPhaseOverWithoutCredential =>
        (Len(Warnings) = 1 /\ LoggedAsWarningOnly)

\* what does hold: one warning per file of the batch, never an error
C18_OneWarningPerFile ==
    AiPhaseOverWithoutCredential =>
        (Len(Warnings) = Len(cliResults) /\ LoggedAsWarningOnly)

-----------------------------------------------------------------------------
(* Claims about an unsupported input (checked under SpecCli) *)

UnsupportedInput == cliInput.kind = "file" /\ Route(cliInput.path) = "none"

\* the run came to rendering: the results are what the renderers are given
ReportRendered == Succeeded /\ ~BadReport

\* the final report has an element for the input, without issues
InputInFinalReport ==
    \E i \in 1..Len(OutputResults(cliResults)) :
        /\ OutputResults(cliResults)[i].file = cliInput.path
        /\ OutputResults(cliResults)[i].issues = <<>>

\* that element carries the error of the scan
ErrorInFinalReport ==
    \E i \in 1..Len(OutputResults(cliResults)) :
        /\ OutputResults(cliResults)[i].file = cliInput.path
        /\ Has(OutputResults(cliResults)[i], "error")

\* the run ends only by rendering, or by failing to write the report file
RunNotAborted == Ended => (ReportRendered \/ BadReport \/ WriteFailed)

\* C19: an input with an unsupported extension does not abort the run: the file
\* appears in the final report with no issues and with its Unsupported file type
\* error, and the report is rendered.
C19_UnsupportedInputReportedWithError ==
    UnsupportedInput =>
        /\ RunNotAborted
        /\ ReportRendered => (InputInFinalReport /\ ErrorInFinalReport)

\* what does hold: the run is not aborted and the file is in the final report
\* with no issues, but the error of its scan result is not passed on
C19_UnsupportedInputReportedWithoutError ==
    UnsupportedInput =>
        /\ RunNotAborted
        /\ ReportRendered =>
              /\ InputInFinalReport
              /\ ~ErrorInFinalReport
              /\ cliResults[1].report = UnsupportedReport(cliInput.path)

-----------------------------------------------------------------------------
(* Claims about the groups of the CSS scan (checked under SpecScan) *)

\* the top-level blocks of the scanned sheet with something to flag, in order
FlaggedBlocks ==
    SelectSeq(TopRules(scEnv.content.nodes),
              LAMBDA r : RemovesOutline(r) \/ LowContrast(r))

\* the outline declarations of the block that remove the outline
OutlineRemovals(rule) ==
    SelectSeq(rule.decls,
              LAMBDA d : d.prop = "outline" /\ \E k \in 1..Len(d.value) : d.value[k] = "none")

\* the issue types a flagged block must yield: its FocusStyle issues, then the
\* ColorContrast issue
TypesFor(rule) ==
    [i \in 1..Len(OutlineRemovals(rule)) |-> "FocusStyle"]
    \o (IF LowContrast(rule) THEN <<"ColorContrast">> ELSE <<>>)

TypesOf(group) == [k \in 1..Len(group.issues) |-> group.issues[k].type]

\* C20: the CSS scan result has exactly one group per top-level rule block
\* with something flagged, in source order, never an empty group; blocks with
\* the same selector keep their own groups, and a block with outline none and
\* a low-contrast pair has one group with FocusStyle before ColorContrast.
C20_OneGroupPerFlaggedBlockInOrder ==
    CssScanned =>
        LET groups == scOutcome.value.issues
        IN /\ Len(groups) = Len(FlaggedBlocks)
           /\ \A g \in 1..Len(groups) :
                 /\ groups[g].selector = FlaggedBlocks[g].selector
                 /\ groups[g].issues # <<>>
                 /\ TypesOf(groups[g]) = TypesFor(FlaggedBlocks[g])

\* two flagged blocks with the same selector around an unflagged one were
\* scanned: two groups, the first with FocusStyle then ColorContrast
C20_Witness ==
    /\ CssScanned
    /\ Len(TopRules(scEnv.content.nodes)) = 3
    /\ Len(scOutcome.value.issues) = 2
    /\ scOutcome.value.issues[1].selector = scOutcome.value.issues[2].selector
    /\ TypesOf(scOutcome.value.issues[1]) = <<"FocusStyle", "ColorContrast">>
    /\ TypesOf(scOutcome.value.issues[2]) = <<"FocusStyle">>

-----------------------------------------------------------------------------
(* Claims about the parsing of a reply (checked under SpecParse) *)

Parsed == fnPc = "done"

Positions(t, c) == {i \in 1..Len(t) : t[i] = c}
First(S) == CHOOSE i \in S : \A j \in S : i <= j

\* the text without the whitespace at its two ends
Trimmed(t) ==
    LET solid == {i \in 1..Len(t) : t[i] # WS}
    IN IF solid = {} THEN <<>>
       ELSE SubSeq(t, First(solid), CHOOSE i \in solid : \A j \in solid : j <= i)

\* position i of the text belongs to a fenced-code marker: the fence, the
\* html or css tag glued to it, and the whitespace that follows them
InFenceMarker(t, i) ==
    \/ t[i] = FENCE
    \/ /\ t[i] \in LangTags
       /\ i > 1 /\ t[i - 1] = FENCE
    \/ /\ t[i] = WS
       /\ \E k \in 1..(i - 1) :
             /\ \/ t[k] = FENCE
                \/ t[k] \in LangTags /\ k > 1 /\ t[k - 1] = FENCE
             /\ \A m \in (k + 1)..(i - 1) : t[m] = WS

\* the text with every fenced-code marker taken out
WithoutFences(t) ==
    LET keep == {i \in 1..Len(t) : ~InFenceMarker(t, i)}
        nth[n \in 0..Len(t)] ==
            IF n = 0 THEN 0
            ELSE First({i \in keep : i > nth[n - 1]} \cup {Len(t) + 1})
    IN [n \in 1..Cardinality(keep) |-> t[nth[n]]]

\* the text after the first SUGGESTION: up to the next CODE: or the end
SuggestionRegion(t) ==
    LET i == First(Positions(t, SUGG))
        j == First({k \in Positions(t, CODE) : k > i} \cup {Len(t) + 1})
    IN SubSeq(t, i + 1, j - 1)

\* the text after CODE: to the end
CodeRegion(t) == SubSeq(t, First(Positions(t, CODE)) + 1, Len(t))

ExpectedSuggestion(t) ==
    IF Positions(t, SUGG) = {} THEN <<>> ELSE Trimmed(SuggestionRegion(t))

ExpectedCodeFix(t) ==
    IF Positions(t, CODE) = {} THEN <<>> ELSE Trimmed(WithoutFences(CodeRegion(t)))

\* the text with its SUGGESTION: markers turned into words
WithoutSuggestionMarker(t) == [i \in 1..Len(t) |-> IF t[i] = SUGG THEN "txt" ELSE t[i]]

\* the text up to the first CODE: after the first SUGGESTION:
BeforeCode(t) ==
    LET i == First(Positions(t, SUGG))
        j == First({k \in Positions(t, CODE) : k > i} \cup {Len(t) + 1})
    IN SubSeq(t, 1, j - 1)

\* C21: parseGeminiResponse returns as suggestion the trimmed text after the
\* first SUGGESTION: up to the next CODE: or the end, and as codeFix the
\* trimmed text after CODE: to the end without its fenced-code markers; a field
\* whose marker is absent is empty, and neither field depends on the presence
\* of the other marker.
C21_TwoIndependentFields ==
    Parsed =>
        /\ fnOutput.suggestion = ExpectedSuggestion(fnInput)
        /\ fnOutput.codeFix = ExpectedCodeFix(fnInput)
        /\ Positions(fnInput, SUGG) = {} => fnOutput.suggestion = <<>>
        /\ Positions(fnInput, CODE) = {} => fnOutput.codeFix = <<>>
        /\ Positions(fnInput, SUGG) # {} =>
              fnOutput.suggestion = parseGeminiResponse(BeforeCode(fnInput)).suggestion
        /\ (Positions(fnInput, CODE) # {} /\ Positions(CodeRegion(fnInput), SUGG) = {}) =>
              fnOutput.codeFix = parseGeminiResponse(WithoutSuggestionMarker(fnInput)).codeFix

\* a reply with both markers and a fence was parsed into two non-empty fields
C21_Witness ==
    /\ Parsed
    /\ Positions(fnInput, SUGG) # {} /\ Positions(fnInput, CODE) # {}
    /\ Positions(fnInput, FENCE) # {}
    /\ fnOutput.suggestion # <<>> /\ fnOutput.codeFix # <<>>
    /\ Positions(fnOutput.codeFix, FENCE) = {}

-----------------------------------------------------------------------------
(* Claims about wrapText (checked under SpecWrap) *)

Wrapped == fnPc = "done"

\* the words of a text: what stands between its spaces
WordsOf(t) == SelectSeq(SplitOnSpace(t), LAMBDA w : w # <<>>)

\* the lines joined with single spaces
RECURSIVE JoinLines(_)
JoinLines(lines) ==
    IF lines = <<>> THEN <<>>
    ELSE IF Len(lines) = 1 THEN lines[1]
    ELSE lines[1] \o <<" ">> \o JoinLines(Tail(lines))

LinesFit == \A i \in 1..Len(fnOutput) : Len(fnOutput[i]) <= fnInput.maxWidth

\* w is the start of word followed by ...
IsTruncationOf(w, word) ==
    /\ Len(w) >= 3
    /\ SubSeq(w, Len(w) - 2, Len(w)) = Dots
    /\ Len(w) - 3 <= Len(word)
    /\ SubSeq(w, 1, Len(w) - 3) = SubSeq(word, 1, Len(w) - 3)

\* the lines hold the words of the text in order, whole unless longer than the
\* width: lines are broken only at spaces and only an over-long word is cut
WordsKept ==
    LET in == WordsOf(fnInput.text)
        out == WordsOf(JoinLines(fnOutput))
    IN /\ Len(out) = Len(in)
       /\ \A k \in 1..Len(in) :
             IF Len(in[k]) > fnInput.maxWidth
             THEN IsTruncationOf(out[k], in[k])
             ELSE out[k] = in[k]

\* C22: for every text and every column width the lines wrapText returns are
\* no longer than the width, are broken only at spaces, cut a word (with ...)
\* only when that word is longer than the width, and otherwise give back the
\* words of the text in order.
C22_WrappedLinesFitTheColumn ==
    Wrapped => (LinesFit /\ WordsKept)

\* what does hold: the words are kept for every width, and the lines fit for
\* every width from 3 on and whenever no word is cut
C22_FitsFromWidthThree ==
    Wrapped =>
        /\ WordsKept
        /\ (fnInput.maxWidth >= 3
            \/ \A k \in 1..Len(WordsOf(fnInput.text)) :
                  Len(WordsOf(fnInput.text)[k]) <= fnInput.maxWidth) => LinesFit

-----------------------------------------------------------------------------
(* Claims about the evaluator's globals (checked under SpecEntryPoints) *)

\* whatever the evaluator read while at work on a file was built from that file
ReadsOwnGlobals == \A r \in epReads : r.globals = r.file

\* while a file is being evaluated the globals are the ones built from it
GlobalsBelongToRunning == \A f \in epRunning : epGlobals = f

\* a scan is started only when the scan before it has completed
OneScanAtATime == Cardinality(epRunning) <= 1

\* the results list only grows
ResultsAppendOnly ==
    [][Len(epResults') >= Len(epResults)
       /\ SubSeq(epResults', 1, Len(epResults)) = epResults]_vars

\* C23: in every entry point a scan is started only after the one before it
\* has completed, so whenever the evaluator is at work on a file the global
\* window and document it reads are the ones built from that file.
C23_EvaluatorReadsItsOwnFile ==
    /\ OneScanAtATime
    /\ GlobalsBelongToRunning
    /\ ReadsOwnGlobals

\* what does hold: it is so in the entry point that awaits every scan
C23_HoldsWhereScansAreAwaited ==
    epEntry = "cli" =>
        /\ OneScanAtATime
        /\ GlobalsBelongToRunning
        /\ ReadsOwnGlobals

-----------------------------------------------------------------------------
(* Claims about the width of the table (checked under SpecLayout) *)

LaidOut == fnPc = "done"

\* the lines formatRow emitted and the separator lines
TableLines == fnOutput.header \o fnOutput.row \o <<fnOutput.banner, fnOutput.separator>>

SameLength == \A i, j \in 1..Len(TableLines) : Len(TableLines[i]) = Len(TableLines[j])

\* C24: for every detected terminal width (120 when undetected, at most 140)
\* every line formatRow emits and every separator line have the same length,
\* and that length does not exceed the capped terminal width.
C24_LinesWithinTerminalWidth ==
    LaidOut =>
        /\ SameLength
        /\ \A i \in 1..Len(TableLines) : Len(TableLines[i]) <= fnOutput.terminalWidth

\* what does hold: the width is the detected one, 120 when undetected and at
\* most 140; from 10 columns on all these lines have the length totalWidth,
\* the column widths plus the 4 bars, which is from 0 to 4 more than the
\* terminal width
C24_SameLengthUpToFourOver ==
    LaidOut =>
        /\ fnOutput.terminalWidth = IF fnInput.columns = 0 THEN 120
                                    ELSE IF fnInput.columns > 140 THEN 140
                                    ELSE fnInput.columns
        /\ fnOutput.terminalWidth >= 10 =>
              /\ \A i \in 1..Len(TableLines) : Len(TableLines[i]) = fnOutput.totalWidth
              /\ fnOutput.totalWidth >= fnOutput.terminalWidth
              /\ fnOutput.totalWidth <= fnOutput.terminalWidth + 4

=============================================================================
